---- MODULE Spec2Model ----
(***************************************************************************)
(* Model of the MCP web gateway (python_servers/mcp_web_server.py): the    *)
(* service registry, the tool catalog, the three conversation drivers      *)
(* (_process_chat_query, _process_enhanced_complex_task,                   *)
(* _process_with_thinking_capture), the /api/call-tool handler and the     *)
(* entity cache with its session facts.                                    *)
(*                                                                         *)
(* The language model and the two backends are the environment: their      *)
(* replies are drawn from small sets.  One conversation request is in      *)
(* flight at a time; its position in the handler is pc.  Requests to       *)
(* /api/call-tool wait for their backend beside it.                        *)
(***************************************************************************)
EXTENDS Integers, Sequences, FiniteSets, TLC

\* ---------------------------------------------------------------- bounds
\* Number of times the environment may leave the plain path: a failed
\* probe or discovery, a model reply other than a lone text, a model
\* exception, a tool reply other than plain text, a failed snapshot write,
\* a direct /api/call-tool request, a text with thinking phrases in a
\* request that captures them.
MaxFree == 2
\* Number of chat requests.
MaxChats == 1
\* Cap on observed loop iterations of the two drivers without a ceiling.
MaxIter == 16

\* ------------------------------------------------------ program constants
max_steps == 15
HistoryReplay == 10
HistoryWindow == 20

Services == <<"salesforce", "jira">>
ServiceSet == {Services[i] : i \in 1..Len(Services)}

None == "None"

\* No request has finished yet.
NoResponse == [drv |-> "none", success |-> FALSE, response |-> <<>>, error |-> None]

\* No system prompt has been built yet.
NoPrompt == [n |-> 0, text |-> <<>>, from |-> <<>>]

\* ------------------------------------------------------------- utilities
Last(s) == s[Len(s)]

\* A slice that keeps the whole list.
TailUntrimmed(s, n) == s

\* s[-n:]
Tail_n(s, n) == IF Len(s) <= n THEN s ELSE SubSeq(s, Len(s) - n + 1, Len(s))

Get(rec, field, default) == IF field \in DOMAIN rec THEN rec[field] ELSE default

Put(f, k, v) == [x \in DOMAIN f \cup {k} |-> IF x = k THEN v ELSE f[x]]

RECURSIVE SeqToSet(_)
SeqToSet(s) == IF s = <<>> THEN {} ELSE {s[1]} \cup SeqToSet(Tail(s))

\* --------------------------------------------------- environment: backends
\* GET /tools of a backend: mcp.list_tools(), the functions registered with
\* @mcp.tool() in the order of their definition.
GetTools(service) ==
    IF service = "salesforce"
    THEN <<"salesforce_query", "salesforce_create", "salesforce_query_accounts",
           "salesforce_query_activities", "salesforce_query_contacts",
           "salesforce_connection_info", "salesforce_query_opportunities",
           "salesforce_query_cases", "salesforce_create_activity",
           "salesforce_delete_activity", "salesforce_update_record",
           "salesforce_get_record_fields", "salesforce_search_records">>
    ELSE <<"jira_search_issues", "jira_get_issue", "jira_create_issue",
           "jira_get_projects", "jira_add_comment", "jira_update_issue",
           "jira_get_issue_types", "jira_connection_info">>

\* Tools each backend returns from GET /tools when discovery succeeds; the
\* gateway keeps every entry of the list.
ToolsOf(service) == GetTools(service)

\* Outcomes of GET {url}/health seen by the gateway.  "200" is the reply of
\* a backend that reached its external system (body status "healthy"),
\* "200_unhealthy" the reply of one that did not: the handler of the backend
\* catches the error and returns the body {"status": "unhealthy"} with HTTP
\* status 200.
HealthOutcomes == {"200", "200_unhealthy", "500", "transport_error"}

\* response.status == 200
HealthStatus200(outcome) == outcome \in {"200", "200_unhealthy"}

\* A tool name that both backends may return.
SharedTool == "connection_info"

\* Outcomes of GET {url}/tools seen by the gateway ("200_shared": the list
\* holds SharedTool as well).
DiscoveryOutcomes == {"200", "200_shared", "500", "transport_error"}

\* The tool names in the body of GET {url}/tools.
ToolsReturned(service, outcome) ==
    CASE outcome = "200" -> ToolsOf(service)
      [] outcome = "200_shared" -> Append(ToolsOf(service), SharedTool)
      [] OTHER -> <<>>

\* Records the backends return inside tool results.
OppAtRisk == [Id |-> "006A", Name |-> "Big Opp", AccountId |-> "001X",
              Implementation_Status__c |-> "At Risk", Jira_Project_Key__c |-> "TECH"]
\* (its project key is blank)
OppOnTrack == [Id |-> "006A", Implementation_Status__c |-> "On Track",
               Jira_Project_Key__c |-> ""]
\* (fields.priority and fields.status stand for their 'name' member)
IssueHot == [key |-> "TECH-1",
             fields |-> [priority |-> "High", status |-> "Blocked", summary |-> "db slow"]]
IssueDone == [key |-> "TECH-1", fields |-> [priority |-> "Low", status |-> "Done"]]
IssueTodo == [key |-> "TECH-2", fields |-> [priority |-> "Low", status |-> "To Do"]]
\* An issue whose priority is unset: the document carries "priority": null.
IssueUnranked == [key |-> "TECH-3", fields |-> [priority |-> None, status |-> "To Do"]]
\* What jira_get_issue returns: a flat document without a 'fields' member.
IssueFlat == [key |-> "TECH-1", summary |-> "db slow", description |-> "",
              status |-> "Blocked", assignee |-> "Unassigned", reporter |-> "Unknown",
              created |-> "2026-01-01", updated |-> "2026-01-02"]
\* What salesforce_query returns: the query result of the Salesforce client,
\* a document with the records in its 'records' list.
QueryResult == [totalSize |-> 1, done |-> TRUE, records |-> <<OppAtRisk>>]
\* What jira_search_issues returns: the issues found, flat, and their number.
SearchResult ==
    [issues |-> <<[key |-> "TECH-1", summary |-> "db slow", status |-> "Blocked",
                   assignee |-> "Unassigned", created |-> "2026-01-01"]>>,
     total |-> 1]
\* An issue whose key is blank.
IssueBlank == [key |-> "", fields |-> [priority |-> "High", status |-> "Blocked"]]
\* A search result: a document with an 'issues' list.
IssueSearch == [issues |-> <<IssueHot, IssueBlank, IssueTodo>>]

\* Text of a tool result.  starts: the text begins with '[' or '{';
\* parses: json.loads accepts it; shape/recs: the parsed document.
PlainText == [starts |-> FALSE, parses |-> FALSE, shape |-> "none", recs |-> <<>>]
BadJson == [starts |-> TRUE, parses |-> FALSE, shape |-> "none", recs |-> <<>>]
JsonDict(rec) == [starts |-> TRUE, parses |-> TRUE, shape |-> "dict", recs |-> <<rec>>]
JsonList(recs) == [starts |-> TRUE, parses |-> TRUE, shape |-> "list", recs |-> recs]
NoneText == [starts |-> FALSE, parses |-> FALSE, shape |-> "none", recs |-> <<>>, none |-> TRUE]

\* What POST {url}/mcp/call can come back with.  status 200 bodies are the
\* ToolResponse envelope of the backends, which always carries both the
\* "result" and the "error" key (one of them null).
HttpOk(text) == [kind |-> "200", result |-> "content", text |-> text]
HttpErrorEnvelope == [kind |-> "200", result |-> "null", message |-> "Unknown tool"]
\* The envelope of a known tool that raised, as one called without its
\* arguments; "Unknown tool" is the envelope for a name the backend does
\* not know.
HttpToolFailed == [kind |-> "200", result |-> "null", message |-> "Tool execution failed"]
Http500 == [kind |-> "500"]
HttpTransport == [kind |-> "client_error"]
HttpTimeout == [kind |-> "timeout"]

ToolReplies(tool) ==
    IF tool = "salesforce_query"
    THEN {HttpOk(PlainText), HttpOk(BadJson), HttpOk(JsonDict(OppAtRisk)),
          HttpOk(JsonDict(OppOnTrack)), HttpOk(JsonList(<<OppAtRisk, OppOnTrack>>)),
          HttpOk(JsonDict(QueryResult)),
          Http500, HttpToolFailed}
    ELSE IF tool = "jira_get_issue"
    THEN {HttpOk(PlainText), HttpOk(JsonDict(IssueHot)), HttpOk(JsonDict(IssueDone)),
          HttpOk(JsonDict(IssueSearch)), HttpOk(JsonDict(IssueUnranked)),
          HttpOk(JsonDict(IssueFlat)), HttpToolFailed, HttpTimeout}
    ELSE IF tool = "jira_search_issues"
    THEN {HttpOk(PlainText), HttpOk(JsonDict(SearchResult)), HttpToolFailed, HttpTimeout}
    ELSE IF tool = "ghost_tool"
    THEN {HttpErrorEnvelope, HttpTransport}
    ELSE {HttpOk(PlainText), HttpToolFailed, HttpTransport}

PlainToolReply == HttpOk(PlainText)

ToolReplyCost(h) == IF h = PlainToolReply THEN 0 ELSE 1

\* The reply a backend gives to /api/call-tool on the plain path: to a tool
\* it does not know it is the error envelope.
PlainReplyOf(tool) == IF tool = "ghost_tool" THEN HttpErrorEnvelope ELSE PlainToolReply

CallReplyCost(tool, h) == IF h = PlainReplyOf(tool) THEN 0 ELSE 1

\* ------------------------------------------------- environment: the model
\* A text item; newline: its text ends in '\n'.
TextItem == [type |-> "text", newline |-> FALSE]
TextNewline == [type |-> "text", newline |-> TRUE]
ToolUse(name) == [type |-> "tool_use", name |-> name]

\* Shapes of response.content the model may return.
Replies ==
    { <<>>,
      <<TextItem>>,
      <<TextItem, TextItem>>,
      <<ToolUse("salesforce_query")>>,
      <<ToolUse("ghost_tool")>>,
      <<TextNewline, ToolUse("jira_get_issue")>>,
      <<ToolUse("salesforce_query"), ToolUse("salesforce_query")>>,
      <<ToolUse("jira_get_issue"), TextItem>>,
      <<TextNewline>> }

FinalReply == <<TextItem>>
PlainToolRequest == <<ToolUse("salesforce_query")>>

\* The model's tool_use ids are unique: the n-th model call of a request
\* numbers its items 10n+1, 10n+2.
Stamp(reply, n) ==
    [i \in 1..Len(reply) |->
        IF reply[i].type = "tool_use"
        THEN [type |-> "tool_use", name |-> reply[i].name, id |-> 10 * n + i]
        ELSE reply[i]]

Drivers == {"chat", "enhanced", "thinking"}

NoCapture == -1

\* A session id that no request was given.
UnknownSession == 0

\* No DELETE request has finished yet.
NoDelete == [seq |-> 0, op |-> "none", session_id |-> UnknownSession, status |-> 0,
             remaining_sessions |-> 0]

VARIABLES
    phase,              \* "created" | "probing" | "serving" | "stopping" | "stopped"
    probed,             \* services whose startup probe has finished
    services,           \* name -> MCPService
    available_tools,    \* list of tool records exposed to the model
    tool_to_server,     \* tool name -> owning service
    tools_reply,        \* service -> replies to its GET /tools, in order
    http_session,       \* "none" | "open" | "closed"
    entity_cache,       \* cache key -> entity_data
    session_context,    \* named session facts and the stored transcript
    thinking_sessions,  \* session id -> number of captured steps
    clock,              \* datetime.now() as a logical clock
    sent,               \* tools/call requests put on the wire, in order
    free,               \* free environment choices left
    chats,              \* chat requests started so far
    long_run,           \* driver whose plain tool requests are not counted, or "none"
    drv,                \* driver of the request in flight, or "none"
    pc,                 \* position of the request in flight
    messages, response, iter_list, idx, assistant_content,
    full_response, process_query, step_count, calls, cur_tool,
    capture,            \* thinking session id of the request in flight, or NoCapture
    last_write,         \* cache key -> record of the latest cache write
    files,              \* the two snapshot files on disk
    out,                \* last finished chat request: what the caller received
    tool_out,           \* last finished /api/call-tool request
    wire_reply,         \* HTTP reply the driver received to its last tools/call
    system_prompt,      \* cached context put into the last system prompt built
    conversation_history, \* self.conversation_history, loaded at construction
    thinking_out,       \* last finished DELETE request on thinking sessions
    health_reply,       \* service -> replies to its health probes, in order
    peer_pc,            \* position of a second, concurrent chat request
    in_flight           \* /api/call-tool requests that wait for their backend

driver_vars == <<drv, pc, messages, response, iter_list, idx, assistant_content,
                 full_response, process_query, step_count, calls, cur_tool, capture>>
registry_vars == <<phase, probed, services, available_tools, tool_to_server, tools_reply,
                   http_session>>
memory_vars == <<entity_cache, session_context, last_write, clock>>
aux_vars == <<system_prompt, conversation_history, thinking_out, health_reply, peer_pc,
              in_flight>>

vars == <<phase, probed, services, available_tools, tool_to_server, tools_reply, http_session,
          entity_cache, session_context, thinking_sessions, clock, sent, free,
          chats, long_run, drv, pc, messages, response, iter_list, idx,
          assistant_content, full_response, process_query, step_count, calls,
          cur_tool, capture, last_write, files, out, tool_out, wire_reply,
          system_prompt, conversation_history, thinking_out, health_reply, peer_pc,
          in_flight>>

\* ------------------------------------------------------------ persistence
\* A file is absent, holds a JSON document ("ok") or holds text that
\* json.load rejects ("partial": a write that stopped half way, or damage).
NoFile == [state |-> "absent", text |-> <<>>]
BadFile == [state |-> "partial", text |-> <<>>]

SaveOutcomes == {"ok", "open_fails", "write_fails"}

\* datetime.now() at the logical time t,
Datetime(t) == [datetime |-> t]

\* A time that is stored as the datetime itself.
IsoFormatSkipped(d) == d

\* its isoformat(), the string 'YYYY-MM-DDTHH:MM:SS.ffffff',
IsoFormat(d) == [iso |-> d.datetime]

\* and str() of it, the string 'YYYY-MM-DD HH:MM:SS.ffffff'.
Str(d) == [str |-> d.datetime]

\* The text of a JSON document: one member per key, in the order the dict
\* yields them.
RECURSIVE Members(_, _)
Members(f, keys) ==
    IF keys = {} THEN <<>>
    ELSE LET k == CHOOSE x \in keys : TRUE
         IN <<[key |-> k, value |-> f[k]]>> \o Members(f, keys \ {k})

JsonText(doc) == Members(doc, DOMAIN doc)

\* default=str of json.dump: json calls it for a value it has no form for,
\* which here is a datetime, and writes the string it returns; a string is
\* written as it is.
JsonDefault(v) == IF "datetime" \in DOMAIN v THEN Str(v) ELSE v

\* A dict (an entity, a fact, a turn) as json.dump writes it.  The members
\* 'cached_at' and 'timestamp' hold a time; the other members are strings,
\* numbers, null and the documents parsed from the tool results, which json
\* writes and reads back unchanged.
JsonObject(o) ==
    [f \in DOMAIN o |->
        IF f \in {"cached_at", "timestamp"} THEN JsonDefault(o[f]) ELSE o[f]]

\* json.dump(data, f, indent=2, default=str) of the two documents the
\* gateway saves: the entity cache, a dict of entities (shape "entities"),
\* and the session context, a dict of lists of dicts (shape "lists").
JsonDump(data, shape) ==
    JsonText(IF shape = "entities"
             THEN [k \in DOMAIN data |-> JsonObject(data[k])]
             ELSE [name \in DOMAIN data |->
                     [i \in DOMAIN data[name] |-> JsonObject(data[name][i])]])

\* json.load of an object: a later member replaces an earlier one that has
\* the same key.
JsonLoad(text) ==
    LET keys == {text[i].key : i \in 1..Len(text)}
        pos(k) == CHOOSE i \in 1..Len(text) :
                     text[i].key = k /\ \A j \in (i + 1)..Len(text) : text[j].key # k
    IN [k \in keys |-> text[pos(k)].value]

\* _save_cache_to_file: open(file_path, 'w') then json.dump; every
\* exception is logged and swallowed.
SaveCacheToFile(file, data, outcome, shape) ==
    CASE outcome = "ok" -> [state |-> "ok", text |-> JsonDump(data, shape)]
      [] outcome = "open_fails" -> file
      [] OTHER -> BadFile

\* _persist_caches: the entity cache, then the session context.  The
\* conversation file is never written.
PersistCaches(fs, cache, ctx, o1, o2) ==
    [cache |-> SaveCacheToFile(fs.cache, cache, o1, "entities"),
     context |-> SaveCacheToFile(fs.context, ctx, o2, "lists"),
     conversation |-> fs.conversation]

SaveCost(o) == IF o = "ok" THEN 0 ELSE 1

\* A load without the try/except: whatever the file holds is read as the
\* document.
LoadCacheFromFileUnguarded(file, empty) ==
    IF file.state = "absent" THEN empty ELSE JsonLoad(file.text)

\* _load_cache_from_file: a missing or unreadable file gives the empty value.
LoadCacheFromFile(file, empty) == IF file.state = "ok" THEN JsonLoad(file.text) ELSE empty

\* _load_conversation_history: the 'conversations' member of the document.
LoadConversationHistory(file) ==
    IF file.state = "ok" THEN Get(JsonLoad(file.text), "conversations", <<>>) ELSE <<>>

\* An entry of the stored transcript, made at the logical time t.
Turn(role, content, t) ==
    [role |-> role, content |-> content, timestamp |-> IsoFormat(Datetime(t))]

EmptyContext == [at_risk_opportunities |-> <<>>, critical_jira_issues |-> <<>>,
                 conversation_history |-> <<>>]

\* Snapshots an earlier run of the gateway may have left on disk.
\* (the key "Account:Name:Acme" is an index entry)
SavedCache ==
    [k \in {<<"Opportunity", "006A">>, <<"Jira", "TECH-1">>, <<"Account", "Name:Acme">>} |->
        IF k[1] = "Opportunity"
        THEN [type |-> "Opportunity", id |-> "006A", data |-> OppAtRisk, cached_at |-> [iso |-> 0]]
        ELSE IF k[1] = "Jira"
        THEN [type |-> "Jira", key |-> "TECH-1", data |-> IssueHot, cached_at |-> [iso |-> 0]]
        ELSE [type |-> "Account", id |-> "001X", data |-> [Id |-> "001X", Name |-> "Acme"],
              cached_at |-> [iso |-> 0]]]
SavedContext ==
    [EmptyContext EXCEPT
       !.at_risk_opportunities =
          <<[id |-> "006A", name |-> "Big Opp", account |-> None, amount |-> 0,
             account_id |-> "001X"]>>,
       !.critical_jira_issues =
          <<[key |-> "TECH-1", summary |-> "db slow", status |-> "Blocked",
             priority |-> "High"]>>]
SavedFiles == [cache |-> [state |-> "ok", text |-> JsonText(SavedCache)],
               context |-> [state |-> "ok", text |-> JsonText(SavedContext)],
               conversation |-> NoFile]
\* A session context whose transcript has filled the window.
FullContext ==
    [SavedContext EXCEPT !.conversation_history =
        [i \in 1..HistoryWindow |->
            [role |-> IF i % 2 = 1 THEN "user" ELSE "assistant", content |-> <<i>>,
             timestamp |-> [iso |-> 0]]]]
\* The document of the conversation file.
SavedConversations ==
    [conversations |-> <<[role |-> "user", content |-> <<"query">>,
                          timestamp |-> [iso |-> 0]]>>,
     last_updated |-> [iso |-> 0],
     total_messages |-> 1]
NoFiles == [cache |-> NoFile, context |-> NoFile, conversation |-> NoFile]

\* ------------------------------------------------------- service registry
NewService == [connected |-> FALSE, last_activity |-> None, error |-> None,
               health_score |-> 10]

ProbeCost(outcome) == IF outcome = "200" THEN 0 ELSE 1

\* A probe whose failure keeps the health score of a new service.
ProbeKeepingHealth(svc, outcome) ==
    IF HealthStatus200(outcome)
    THEN [svc EXCEPT !.connected = TRUE, !.error = None, !.health_score = 10]
    ELSE [svc EXCEPT !.connected = FALSE, !.error = outcome]

\* _connect_to_service: the fields of one service after its probe
\* (health_score in tenths: 10 is 1.0).
Probe(svc, outcome) ==
    IF HealthStatus200(outcome)
    THEN [svc EXCEPT !.connected = TRUE, !.error = None, !.health_score = 10]
    ELSE [svc EXCEPT !.connected = FALSE, !.error = outcome, !.health_score = 0]

\* _get_service_tools: the tool list of one service ('service' tags the
\* entry with the backend it came from).
GetServiceTools(service, outcome) ==
    IF outcome \in {"200", "200_shared"}
    THEN [i \in 1..Len(ToolsReturned(service, outcome)) |->
             [name |-> ToolsReturned(service, outcome)[i], service |-> service]]
    ELSE <<>>

\* A catalog in which the first service to return a name keeps it.
CollectToolsFirstWins(acc, s, tools) ==
    LET names == {tools[k].name : k \in 1..Len(tools)}
    IN [list |-> acc.list \o tools,
        index |-> [n \in DOMAIN acc.index \cup names |->
                      IF n \in DOMAIN acc.index THEN acc.index[n] ELSE s]]

\* _collect_available_tools, one pass of its loop: the tools of service s
\* are appended to the list and each of their names is mapped to s.
CollectTools(acc, s, tools) ==
    LET names == {tools[k].name : k \in 1..Len(tools)}
    IN [list |-> acc.list \o tools,
        index |-> [n \in DOMAIN acc.index \cup names |->
                      IF n \in names THEN s ELSE acc.index[n]]]

\* A loop that asks every service for its tools, connected or not.
PendingUnchecked(svcs, replies) ==
    SelectSeq(Services, LAMBDA s : replies[s] = <<>>)

\* The services _collect_available_tools has still to ask, in dict order:
\* those with svc.connected that have not answered GET /tools yet.
Pending(svcs, replies) ==
    SelectSeq(Services, LAMBDA s : svcs[s].connected /\ replies[s] = <<>>)

\* The state after MCPWebServer.__init__ with the snapshot files fs on disk,
\* f free environment choices, c chat requests already counted and the
\* long-run switch lr.
InitWith(fs, f, c, lr) ==
    /\ phase = "created"
    /\ probed = {}
    /\ services = [s \in ServiceSet |-> NewService]
    /\ available_tools = <<>>
    /\ tool_to_server = <<>>
    /\ tools_reply = [s \in ServiceSet |-> <<>>]
    /\ http_session = "none"
    /\ files = fs
    /\ entity_cache = LoadCacheFromFile(fs.cache, <<>>)
    /\ session_context = LoadCacheFromFile(fs.context, EmptyContext)
    /\ conversation_history = LoadConversationHistory(fs.conversation)
    /\ system_prompt = NoPrompt
    /\ thinking_sessions = <<>>
    /\ thinking_out = NoDelete
    /\ health_reply = [s \in ServiceSet |-> <<>>]
    /\ peer_pc = "idle"
    /\ in_flight = <<>>
    /\ clock = 1
    /\ sent = <<>>
    /\ free = f
    /\ chats = c
    /\ long_run = lr
    /\ drv = "none"
    /\ pc = "idle"
    /\ messages = <<>>
    /\ response = <<>>
    /\ iter_list = <<>>
    /\ idx = 0
    /\ assistant_content = <<>>
    /\ full_response = <<>>
    /\ process_query = FALSE
    /\ step_count = 0
    /\ calls = 0
    /\ cur_tool = None
    /\ capture = NoCapture
    /\ last_write = <<>>
    /\ out = NoResponse
    /\ tool_out = [seq |-> 0, service |-> None, status |-> 0, success |-> FALSE,
                   data |-> None]
    /\ wire_reply = [kind |-> "none"]

Init == \E fs \in {NoFiles, SavedFiles} :
            InitWith(fs, MaxFree, 0, "none")

\* A model that may go on requesting the plain tool, call after call, in a
\* complex task.
InitLong == InitWith(NoFiles, MaxFree - 1, MaxChats - 1, "enhanced")

\* _start_mcp_services, up to the gather of the two probes.
StartServices ==
    /\ phase = "created"
    /\ phase' = "probing"
    /\ http_session' = "open"
    /\ UNCHANGED <<probed, services, available_tools, tool_to_server, tools_reply,
                   thinking_sessions, sent, free, chats, long_run, files, out, tool_out, wire_reply>>
    /\ UNCHANGED driver_vars
    /\ UNCHANGED memory_vars
    /\ UNCHANGED aux_vars

\* _connect_to_service(s): one of the gathered probes finishes.
ConnectToService(s) ==
    /\ phase = "probing"
    /\ s \notin probed
    /\ \E outcome \in HealthOutcomes :
          /\ free >= ProbeCost(outcome)
          /\ free' = free - ProbeCost(outcome)
          /\ services' = [services EXCEPT ![s] = Probe(services[s], outcome)]
          /\ health_reply' = [health_reply EXCEPT ![s] = Append(@, outcome)]
    /\ probed' = probed \cup {s}
    /\ UNCHANGED <<phase, available_tools, tool_to_server, tools_reply, http_session,
                   thinking_sessions, sent, chats, long_run, files, out, tool_out, wire_reply>>
    /\ UNCHANGED driver_vars
    /\ UNCHANGED memory_vars
    /\ UNCHANGED <<system_prompt, conversation_history, thinking_out, peer_pc, in_flight>>

\* A gather that returns as soon as one probe has finished.
GatherFirst(done) == done # {}

\* await asyncio.gather(...): returns when every probe has finished.
Gather(done) == done = ServiceSet

\* _start_mcp_services after the gather: _collect_available_tools.  It
\* empties the two tables and fetches the tools of the connected services one
\* after the other, each with an awaited GET /tools.  A step takes the
\* function from one of these requests to the next, or to its return.
CollectAvailableTools ==
    /\ phase = "probing"
    /\ Gather(probed)
    /\ LET todo == Pending(services, tools_reply)
           started == \E s \in ServiceSet : tools_reply[s] # <<>>
           acc == IF started THEN [list |-> available_tools, index |-> tool_to_server]
                  ELSE [list |-> <<>>, index |-> <<>>]
       IN IF todo = <<>>
          THEN /\ available_tools' = acc.list
               /\ tool_to_server' = acc.index
               /\ phase' = "serving"
               /\ UNCHANGED <<free, tools_reply>>
          ELSE \E outcome \in DiscoveryOutcomes :
                  LET s == Head(todo)
                      c == CollectTools(acc, s, GetServiceTools(s, outcome))
                  IN /\ free >= ProbeCost(outcome)
                     /\ free' = free - ProbeCost(outcome)
                     /\ available_tools' = c.list
                     /\ tool_to_server' = c.index
                     /\ tools_reply' = [tools_reply EXCEPT ![s] = Append(@, outcome)]
                     /\ phase' = IF Len(todo) = 1 THEN "serving" ELSE "probing"
    /\ UNCHANGED <<probed, services, http_session, thinking_sessions, sent,
                   chats, long_run, files, out, tool_out, wire_reply>>
    /\ UNCHANGED driver_vars
    /\ UNCHANGED memory_vars
    /\ UNCHANGED aux_vars

\* ------------------------------------------------------------ entity cache
\* str.startswith
StartsWith(str, prefix) ==
    Len(str) >= Len(prefix) /\ SubSeq(str, 1, Len(prefix)) = prefix

\* Record type from the identifier prefix (006 / 500 / 001 / 003).
RecordType(record_id) ==
    IF StartsWith(record_id, "006") THEN "Opportunity"
    ELSE IF StartsWith(record_id, "500") THEN "Case"
    ELSE IF StartsWith(record_id, "001") THEN "Account"
    ELSE IF StartsWith(record_id, "003") THEN "Contact"
    ELSE None

\* The memory a cache write works on.
Memory == [cache |-> entity_cache, ctx |-> session_context, lw |-> last_write, now |-> clock]

\* A cache write that keeps the entry a key already has.
StoreEntityIfAbsent(cache, cache_key, entity_data) ==
    IF cache_key \in DOMAIN cache THEN cache ELSE Put(cache, cache_key, entity_data)

\* A cache write that updates the stored payload field by field.
StoreEntityMerging(cache, cache_key, entity_data) ==
    IF cache_key \in DOMAIN cache
    THEN LET old == cache[cache_key].data
             new == entity_data.data
         IN Put(cache, cache_key,
                [entity_data EXCEPT !.data =
                    [f \in DOMAIN old \cup DOMAIN new |->
                        IF f \in DOMAIN new THEN new[f] ELSE old[f]]])
    ELSE Put(cache, cache_key, entity_data)

\* self.entity_cache[cache_key] = entity_data
StoreEntity(cache, cache_key, entity_data) == Put(cache, cache_key, entity_data)

\* d.get(member, {}).get('name'): the default stands in for a missing member
\* only, so a member that is present and null makes the second get raise
\* AttributeError.
NullMember(d, member) == member \in DOMAIN d /\ d[member] = None

\* `if not x` for a value that is a string or null.
Falsy(x) == x = None \/ x = ""

\* _cache_single_sf_record
CacheSingleSfRecord(m, record) ==
    LET record_id == Get(record, "Id", None)
        record_type == RecordType(record_id)
        cache_key == <<record_type, record_id>>
        entity_data == [type |-> record_type, id |-> record_id, data |-> record,
                        cached_at |-> IsoFormat(Datetime(m.now))]
        at_risk_data == [id |-> record_id, name |-> Get(record, "Name", None),
                         account |-> Get(Get(record, "Account", <<>>), "Name", None),
                         amount |-> Get(record, "Amount", 0),
                         account_id |-> Get(record, "AccountId", None)]
        risky == record_type = "Opportunity"
                 /\ Get(record, "Implementation_Status__c", None) = "At Risk"
        raises == NullMember(record, "Account")
    IN IF Falsy(record_id) \/ record_type = None THEN m
       ELSE [cache |-> StoreEntity(m.cache, cache_key, entity_data),
             ctx |-> IF risky /\ ~raises
                     THEN [m.ctx EXCEPT !.at_risk_opportunities = Append(@, at_risk_data)]
                     ELSE m.ctx,
             lw |-> Put(m.lw, cache_key, [data |-> record, cached_at |-> IsoFormat(Datetime(m.now))]),
             now |-> m.now + 1]

\* _cache_single_jira_issue
CacheSingleJiraIssue(m, issue) ==
    LET issue_key == Get(issue, "key", None)
        cache_key == <<"Jira", issue_key>>
        fields == Get(issue, "fields", <<>>)
        priority == Get(fields, "priority", "")
        status == Get(fields, "status", "")
        critical == priority \in {"High", "Highest"} \/ status \in {"Blocked", "To Do"}
        raises == NullMember(fields, "priority") \/ NullMember(fields, "status")
    IN IF Falsy(issue_key) THEN m
       ELSE [cache |-> StoreEntity(m.cache, cache_key,
                          [type |-> "Jira", key |-> issue_key, data |-> issue,
                           cached_at |-> IsoFormat(Datetime(m.now))]),
             ctx |-> IF ~raises /\ critical
                     THEN [m.ctx EXCEPT !.critical_jira_issues =
                              Append(@, [key |-> issue_key,
                                         summary |-> Get(fields, "summary", ""),
                                         status |-> status, priority |-> priority])]
                     ELSE m.ctx,
             lw |-> Put(m.lw, cache_key, [data |-> issue, cached_at |-> IsoFormat(Datetime(m.now))]),
             now |-> m.now + 1]

RECURSIVE CacheSfList(_, _)
CacheSfList(m, recs) ==
    IF recs = <<>> THEN m
    ELSE CacheSfList(CacheSingleSfRecord(m, Head(recs)), Tail(recs))

\* _cache_salesforce_entities: a list of records or a single record.
CacheSalesforceEntities(m, text) == CacheSfList(m, text.recs)

RECURSIVE CacheJiraList(_, _)
CacheJiraList(m, issues) ==
    IF issues = <<>> THEN m
    ELSE CacheJiraList(CacheSingleJiraIssue(m, Head(issues)), Tail(issues))

\* _cache_jira_entities: a search result (a dict with 'issues') or a single
\* issue (a dict with 'key').
CacheJiraEntities(m, text) ==
    IF text.shape = "dict" /\ "issues" \in DOMAIN text.recs[1]
    THEN CacheJiraList(m, text.recs[1].issues)
    ELSE IF text.shape = "dict" /\ "key" \in DOMAIN text.recs[1]
    THEN CacheSingleJiraIssue(m, text.recs[1])
    ELSE m

\* json.loads succeeded on the tool result
ParsesAsJson(text) == text.starts /\ text.parses

\* _cache_entities_from_result
CacheEntitiesFromResult(m, tool_name, text) ==
    IF ~ParsesAsJson(text) THEN m
    ELSE IF tool_name \in {"salesforce_query", "salesforce_get_record"}
         THEN CacheSalesforceEntities(m, text)
    ELSE IF tool_name \in {"jira_search_issues", "jira_get_issue"}
         THEN CacheJiraEntities(m, text)
    ELSE m

\* --------------------------------------------------------- cached context
\* The lines for the at-risk opportunities that are still in the cache.
RECURSIVE OppLines(_, _)
OppLines(cache, opps) ==
    IF opps = <<>> THEN <<>>
    ELSE LET opp == Head(opps)
             cache_key == <<"Opportunity", opp.id>>
             lines ==
                IF cache_key \in DOMAIN cache
                THEN LET opp_data == cache[cache_key].data
                     IN <<[kind |-> "opportunity", name |-> opp.name, id |-> opp.id,
                           account_id |-> Get(opp_data, "AccountId", "Unknown")],
                          [kind |-> "status", account |-> Get(opp, "account", "Unknown")]>>
                        \o (LET jira_project == Get(opp_data, "Jira_Project_Key__c", None)
                            IN IF ~Falsy(jira_project)
                               THEN <<[kind |-> "jira_project", key |-> jira_project]>>
                               ELSE <<>>)
                ELSE <<>>
         IN lines \o OppLines(cache, Tail(opps))

\* The lines for the critical Jira issues.
RECURSIVE IssueLines(_)
IssueLines(issues) ==
    IF issues = <<>> THEN <<>>
    ELSE LET issue == Head(issues)
         IN <<[kind |-> "issue", key |-> issue.key, summary |-> issue.summary],
              [kind |-> "issue_status", status |-> issue.status,
               priority |-> issue.priority]>> \o IssueLines(Tail(issues))

\* A cache key "Opportunity:Name:...", "Case:Number:...", "Case:JiraKey:..."
\* or "Account:Name:...": an index entry, which the summary leaves out.  (A
\* key is the pair of the parts before and after its first ':'.)
IsIndexKey(k) ==
    \/ k[1] \in {"Opportunity", "Account"} /\ StartsWith(k[2], "Name:")
    \/ k[1] = "Case" /\ (StartsWith(k[2], "Number:") \/ StartsWith(k[2], "JiraKey:"))

\* The summary of the cached entities: their number, and the number per
\* type (one line per type; the order of these lines is the dict order of
\* the cache and is not modelled).
EntityLines(cache) ==
    LET recent_entities == {k \in DOMAIN cache : ~IsIndexKey(k)}
    IN IF recent_entities = {} THEN <<>>
       ELSE <<[kind |-> "entities", total |-> Cardinality(recent_entities),
               counts |-> [t \in {cache[k].type : k \in recent_entities} |->
                             Cardinality({k \in recent_entities : cache[k].type = t})]]>>

\* _build_cached_context_prompt
BuildCachedContextPrompt(cache, ctx) ==
    LET at_risk_opps == ctx.at_risk_opportunities
        critical_jira == ctx.critical_jira_issues
        context_parts ==
            (IF at_risk_opps # <<>>
             THEN <<[kind |-> "at_risk_header"]>> \o OppLines(cache, at_risk_opps)
             ELSE <<>>)
            \o (IF critical_jira # <<>>
                THEN <<[kind |-> "critical_header"]>> \o IssueLines(critical_jira)
                ELSE <<>>)
            \o EntityLines(cache)
    IN IF context_parts # <<>> THEN Append(context_parts, [kind |-> "important"]) ELSE <<>>

\* The session facts: the named lists of the session context, without the
\* stored transcript.
Facts(ctx) == [at_risk_opportunities |-> ctx.at_risk_opportunities,
               critical_jira_issues |-> ctx.critical_jira_issues]

\* The driver builds its system prompt around the cached context.  n counts
\* the prompts built, from is the memory the text was built from.
BuildPrompt == [n |-> system_prompt.n + 1,
                text |-> BuildCachedContextPrompt(entity_cache, session_context),
                from |-> [cache |-> entity_cache, facts |-> Facts(session_context)]]

\* The identifiers a system prompt names.
PromptIds(text) ==
    {text[i].id : i \in {j \in 1..Len(text) : text[j].kind = "opportunity"}}
      \cup {text[i].key : i \in {j \in 1..Len(text) : text[j].kind = "issue"}}

\* ------------------------------------------------------- tool invocation
\* _call_mcp_tool_direct: the HTTP reply turned into a result or an exception.
CallMcpToolDirect(h) ==
    IF h.kind = "200"
    THEN IF h.result = "content"
         THEN [ok |-> TRUE, text |-> h.text, err |-> None]
         ELSE [ok |-> TRUE, text |-> NoneText, err |-> None]
    ELSE [ok |-> FALSE, text |-> PlainText, err |-> h.kind]

\* _execute_mcp_tool_http: same envelope handling for /api/call-tool.
ExecuteMcpToolHttp(h) ==
    IF h.kind = "200"
    THEN IF h.result = "content"
         THEN [ok |-> TRUE, text |-> h.text, err |-> None]
         ELSE [ok |-> TRUE, text |-> NoneText, err |-> None]
    ELSE [ok |-> FALSE, text |-> PlainText, err |-> h.kind]

\* No connected check at all.
ServiceConnectedUnchecked(service) == TRUE

\* The connected check that guards every tools/call request:
\* _call_mcp_tool, _execute_mcp_tool_http and the /api/call-tool handler.
ServiceConnected(service) == services[service].connected

\* A lookup that falls back to the first service.
ResolveWithDefault(tool_name) == Get(tool_to_server, tool_name, Services[1])

\* self.tool_to_server.get(tool_name)
Resolve(tool_name) == Get(tool_to_server, tool_name, None)

\* The request put on the wire by http_session.post(.../mcp/call).
\* req is the chat request it belongs to (0: /api/call-tool).
WireRequest(service, tool_name, id, req) ==
    [service |-> service, tool |-> tool_name, id |-> id, req |-> req,
     connected |-> services[service].connected]

\* ------------------------------------------------- conversation drivers
\* One call of self.anthropic.messages.create as the environment decides
\* it: an exception, or a reply.
ModelOutcomes ==
    {[raise |-> FALSE, reply |-> r] : r \in Replies} \cup {[raise |-> TRUE, reply |-> <<>>]}

\* What a model outcome takes from the budget of free choices: a lone text
\* is the plain path, and so is a plain tool request of the driver that is given long runs.
Cost(e, d) ==
    IF ~e.raise /\ (e.reply = FinalReply \/ (long_run = d /\ e.reply = PlainToolRequest))
    THEN 0 ELSE 1

IsLoneText(resp) == Len(resp) = 1 /\ resp[1].type = "text"

\* The pieces of full_response.  A text of the model goes in as it is
\* ("text") or through _format_response_text ("fmt_text"), which leaves the
\* end of the text as it was; "_nl" marks a piece whose text ends in '\n'.
RawText(item) == IF item.newline THEN "text_nl" ELSE "text"
FormatResponseText(item) == IF item.newline THEN "fmt_text_nl" ELSE "fmt_text"

\* full_response.endswith('\n'): the separators and the error lines end in
\* a newline, a text does when the model's text did.
EndsWithNewline(text) ==
    text # <<>> /\ Last(text) \in {"sep", "nl", "err", "step_err", "text_nl", "fmt_text_nl"}

UserQuery == [role |-> "user", kind |-> "query"]
AssistantMsg(lst, items) == [role |-> "assistant", kind |-> "content", lst |-> lst, items |-> items]
\* content is the tool's text, or "Error: ..." with the exception text.
ToolResult(id, text, error) ==
    [role |-> "user", kind |-> "tool_result", tool_use_id |-> id,
     text |-> text, error |-> error]

\* assistant_content.append(content): every message that holds this list
\* object sees the new item.
AppendContent(msgs, lst, items) ==
    [i \in 1..Len(msgs) |->
        IF msgs[i].kind = "content" /\ msgs[i].lst = lst
        THEN [msgs[i] EXCEPT !.items = items] ELSE msgs[i]]

\* The messages replayed from the stored transcript: of its last 10 turns
\* those whose role is 'user' or 'assistant'.
Replay(history) ==
    LET h == Tail_n(history, HistoryReplay)
        kept == SelectSeq(h, LAMBDA msg : Get(msg, "role", None) \in {"user", "assistant"})
    IN [i \in 1..Len(kept) |-> [role |-> kept[i].role, kind |-> "turn"]]

\* Text appended to full_response by a text item of the for loop.
TextInLoop(d, text, item) ==
    IF d = "chat"
    THEN (IF text # <<>> /\ ~EndsWithNewline(text) THEN text \o <<"sep">> ELSE text)
         \o <<FormatResponseText(item)>>
    ELSE Append(text, RawText(item))

\* Text appended when the reply that follows a tool result is a lone text.
TextAfterResult(d, text, item) ==
    IF d = "chat"
    THEN (IF text # <<>> /\ ~EndsWithNewline(text) THEN text \o <<"nl">> ELSE text)
         \o <<RawText(item)>>
    ELSE IF d = "thinking" THEN text \o <<"nl", RawText(item)>>
    ELSE Append(text, RawText(item))

\* Text appended when the reply that follows a tool error is a lone text.
TextAfterError(d, text, item) ==
    IF d = "enhanced" THEN text \o <<"step_err", RawText(item)>>
    ELSE text \o <<"err", RawText(item)>>

\* The while condition of the driver loop.
LoopContinues(d, pq, steps) ==
    IF d = "enhanced" THEN pq /\ steps < max_steps ELSE pq

\* The note only when the counter has passed the ceiling.
StepNoteLate(d, steps, text) ==
    IF d = "enhanced" /\ steps > max_steps THEN Append(text, "step_note") ELSE text

\* The note of _process_enhanced_complex_task after its loop.
StepNote(d, steps, text) ==
    IF d = "enhanced" /\ steps >= max_steps THEN Append(text, "step_note") ELSE text

\* What the endpoint hands to its caller.
ChatResponse(d, success, text, error) ==
    [drv |-> d, success |-> success, response |-> text, error |-> error]

\* The except block of a tool_use item: the error goes to the model as a
\* tool_result and the model is called again.  st is the driver state the
\* block starts from, e2 the outcome of its model call.
ErrorBlock(d, st, id, err, e2) ==
    [messages |-> Append(st.messages, ToolResult(id, PlainText, err)),
     response |-> IF e2.raise THEN st.response ELSE Stamp(e2.reply, st.calls + 1),
     calls |-> st.calls + 1,
     full_response |-> IF ~e2.raise /\ IsLoneText(e2.reply)
                       THEN TextAfterError(d, st.full_response, e2.reply[1]) ELSE st.full_response,
     process_query |-> IF ~e2.raise /\ IsLoneText(e2.reply) THEN FALSE ELSE st.process_query,
     failed |-> e2.raise,
     tool_error |-> err]

\* A try block that keeps iterating the reply it already has.
ResultBlockStale(d, st, id, text, e1) ==
    [messages |-> Append(st.messages, ToolResult(id, text, None)),
     response |-> st.response,
     calls |-> st.calls + 1,
     full_response |-> IF ~e1.raise /\ IsLoneText(e1.reply)
                       THEN TextAfterResult(d, st.full_response, e1.reply[1]) ELSE st.full_response,
     process_query |-> IF ~e1.raise /\ IsLoneText(e1.reply) THEN FALSE ELSE st.process_query,
     failed |-> e1.raise,
     tool_error |-> None]

\* A try block that hands the model a cleaned-up text instead of the raw one.
ResultBlockCleaned(d, st, id, text, e1) ==
    [messages |-> Append(st.messages, ToolResult(id, PlainText, None)),
     response |-> IF e1.raise THEN st.response ELSE Stamp(e1.reply, st.calls + 1),
     calls |-> st.calls + 1,
     full_response |-> IF ~e1.raise /\ IsLoneText(e1.reply)
                       THEN TextAfterResult(d, st.full_response, e1.reply[1]) ELSE st.full_response,
     process_query |-> IF ~e1.raise /\ IsLoneText(e1.reply) THEN FALSE ELSE st.process_query,
     failed |-> e1.raise,
     tool_error |-> None]

\* The try block of a tool_use item after the tool returned text: the
\* result goes to the model and the model is called again.
ResultBlock(d, st, id, text, e1) ==
    [messages |-> Append(st.messages, ToolResult(id, text, None)),
     response |-> IF e1.raise THEN st.response ELSE Stamp(e1.reply, st.calls + 1),
     calls |-> st.calls + 1,
     full_response |-> IF ~e1.raise /\ IsLoneText(e1.reply)
                       THEN TextAfterResult(d, st.full_response, e1.reply[1]) ELSE st.full_response,
     process_query |-> IF ~e1.raise /\ IsLoneText(e1.reply) THEN FALSE ELSE st.process_query,
     failed |-> e1.raise,
     tool_error |-> None]

DriverState == [messages |-> messages, response |-> response, calls |-> calls,
                full_response |-> full_response, process_query |-> process_query]

\* The outer except of the three drivers: the error text becomes the reply.
\* The text is "I encountered an error processing your request: " and
\* str(e).  The exception of a model call ends in it,
DriverError(d) ==
    ChatResponse(d, TRUE, <<"error_processing_request", "model_error">>, None)

\* and so does the KeyError of a capture helper whose session is gone.
SessionGoneError(d) ==
    ChatResponse(d, TRUE, <<"error_processing_request", "key_error">>, None)

\* A persistence step whose failed write ends in the driver's outer except.
EnsureMemoryPersistenceRaising(reply, o1, o2) ==
    IF o1 # "ok" \/ o2 # "ok" THEN DriverError(reply.drv) ELSE reply

\* _ensure_memory_persistence, _persist_caches and _save_cache_to_file log
\* every exception of a write and swallow it: the driver goes on to return
\* the reply it has.
EnsureMemoryPersistence(reply, o1, o2) == reply

AfterItem == IF idx + 1 > Len(iter_list) THEN "while" ELSE "for"

Reset ==
    /\ drv' = "none"
    /\ pc' = "idle"
    /\ messages' = <<>>
    /\ response' = <<>>
    /\ iter_list' = <<>>
    /\ idx' = 0
    /\ assistant_content' = <<>>
    /\ full_response' = <<>>
    /\ process_query' = FALSE
    /\ step_count' = 0
    /\ calls' = 0
    /\ cur_tool' = None
    /\ capture' = NoCapture

\* Apply the state st reached by a ResultBlock/ErrorBlock, or leave through
\* the outer except when its model call raised.
Settle(d, st) ==
    IF st.failed
    THEN /\ out' = DriverError(d)
         /\ Reset
    ELSE /\ messages' = st.messages
         /\ response' = st.response
         /\ calls' = st.calls
         /\ full_response' = st.full_response
         /\ process_query' = st.process_query
         /\ idx' = idx + 1
         /\ pc' = AfterItem
         /\ cur_tool' = None
         /\ UNCHANGED <<drv, iter_list, assistant_content, step_count, capture, out>>

\* The two sequential turns of a follow-up question.
Turns == <<"first", "next">>

\* Number of chat requests a run takes.
ChatLimit == IF long_run = "turns" THEN Len(Turns) ELSE MaxChats

\* An empty catalog reported as a failed request.
NoToolsReplyFailed(d) == ChatResponse(d, FALSE, <<"apology">>, "no_tools")

\* The reply of a driver that finds the catalog empty, as the endpoint
\* reports it.
NoToolsReply(d) == ChatResponse(d, TRUE, <<"no_tools">>, None)

\* POST /api/chat and /api/chat-with-thinking up to the first model reply.
\* _process_complex_task builds its prompt before the driver looks at the
\* catalog, _process_chat_query after it; the traced driver puts no cached
\* context into its prompt.
ChatStart(d, cap) ==
    /\ phase = "serving"
    /\ pc = "idle"
    /\ chats < ChatLimit
    /\ chats' = chats + 1
    /\ conversation_history' = conversation_history
    /\ thinking_out' = thinking_out
    /\ health_reply' = health_reply
    /\ peer_pc' = peer_pc
    /\ in_flight' = in_flight
    /\ \/ /\ available_tools = <<>>
          /\ out' = NoToolsReply(d)
          /\ system_prompt' = IF d = "enhanced" THEN BuildPrompt ELSE system_prompt
          /\ UNCHANGED <<free, thinking_sessions>>
          /\ UNCHANGED driver_vars
       \/ /\ available_tools # <<>>
          /\ system_prompt' = IF d \in {"chat", "enhanced"} THEN BuildPrompt
                               ELSE system_prompt
          /\ thinking_sessions' = IF d = "thinking" /\ cap
                                  THEN Put(thinking_sessions, clock, 0)
                                  ELSE thinking_sessions
          /\ \E e \in ModelOutcomes :
                /\ free >= Cost(e, d)
                /\ free' = free - Cost(e, d)
                /\ IF e.raise
                   THEN /\ out' = DriverError(d)
                        /\ UNCHANGED driver_vars
                   ELSE /\ drv' = d
                        /\ capture' = IF d = "thinking" /\ cap THEN clock ELSE NoCapture
                        /\ messages' = (IF d = "chat"
                                        THEN Replay(session_context.conversation_history)
                                        ELSE <<>>) \o <<UserQuery>>
                        /\ response' = Stamp(e.reply, 1)
                        /\ calls' = 1
                        /\ process_query' = TRUE
                        /\ full_response' = <<>>
                        /\ step_count' = 0
                        /\ pc' = "while"
                        /\ UNCHANGED <<iter_list, idx, assistant_content, cur_tool, out>>
    /\ UNCHANGED registry_vars
    /\ clock' = clock + 1
    /\ UNCHANGED <<sent, long_run, files, tool_out, wire_reply>>
    /\ UNCHANGED <<entity_cache, session_context, last_write>>

\* self.thinking_sessions[session_id] raises KeyError: the session of the
\* request in flight was deleted while the request waited for its tool.  The
\* capture helper after the tool call raises, the one in the except block
\* raises again, and the driver's outer except returns the error text.
SessionGone(ts, sid) == sid # NoCapture /\ sid \notin DOMAIN ts

\* A delete by id that clears the whole store.
DeleteSessionGreedy(ts, sid) == <<>>

\* del self.thinking_sessions[session_id]
DeleteSession(ts, sid) == [k \in DOMAIN ts \ {sid} |-> ts[k]]

\* Capture helpers of the traced driver: one ThinkingStep appended.
Capture(ts, sid) == IF sid = NoCapture THEN ts ELSE [ts EXCEPT ![sid] = @ + 1]

\* The phrase families _extract_thinking_from_text looks for.
PhraseFamilies == 7

\* How many of the families a text of the model may hold; the count is of
\* interest only when the request captures its thinking.
TextPhrases(sid) == IF sid = NoCapture THEN {0} ELSE 0..PhraseFamilies

\* A text without any of the phrases is the plain path.
PhraseCost(n) == IF n = 0 THEN 0 ELSE 1

\* _extract_thinking_from_text: one ThinkingStep for each phrase family the
\* text holds, taken from the first sentence that holds its first match.
ExtractThinkingFromText(ts, sid, n) ==
    IF sid = NoCapture THEN ts ELSE [ts EXCEPT ![sid] = @ + n]

\* Top of the while loop: one more iteration over response.content.
WhileIter ==
    /\ pc = "while"
    /\ LoopContinues(drv, process_query, step_count)
    /\ drv = "enhanced" \/ step_count < MaxIter
    /\ step_count' = step_count + 1
    /\ assistant_content' = <<>>
    /\ iter_list' = response
    /\ idx' = 1
    /\ pc' = IF response = <<>> THEN "while" ELSE "for"
    /\ UNCHANGED <<drv, messages, response, full_response, process_query, calls,
                   cur_tool, capture>>
    /\ UNCHANGED registry_vars
    /\ UNCHANGED memory_vars
    /\ UNCHANGED <<thinking_sessions, sent, free, chats, long_run, files, out, tool_out, wire_reply>>
    /\ UNCHANGED aux_vars

\* A text item of the for loop.
ForText ==
    /\ pc = "for"
    /\ iter_list[idx].type = "text"
    /\ full_response' = TextInLoop(drv, full_response, iter_list[idx])
    /\ assistant_content' = Append(assistant_content, iter_list[idx])
    /\ messages' = AppendContent(messages, step_count, assistant_content')
    /\ process_query' = IF Len(response) = 1 THEN FALSE ELSE process_query
    /\ \E n \in TextPhrases(capture) :
          /\ free >= PhraseCost(n)
          /\ free' = free - PhraseCost(n)
          /\ thinking_sessions' = ExtractThinkingFromText(thinking_sessions, capture, n)
    /\ idx' = idx + 1
    /\ pc' = AfterItem
    /\ UNCHANGED <<drv, response, iter_list, step_count, calls, cur_tool, capture>>
    /\ UNCHANGED registry_vars
    /\ UNCHANGED memory_vars
    /\ UNCHANGED <<sent, chats, long_run, files, out, tool_out, wire_reply>>
    /\ UNCHANGED aux_vars

\* A tool_use item of the for loop, up to the point where the driver is
\* suspended in the HTTP request, or through the except block when the tool
\* cannot be dispatched.
ForToolUse ==
    /\ pc = "for"
    /\ iter_list[idx].type = "tool_use"
    /\ LET item == iter_list[idx]
           ac == Append(assistant_content, item)
           msgs == Append(AppendContent(messages, step_count, ac),
                          AssistantMsg(step_count, ac))
           server_name == Resolve(item.name)
           st == [DriverState EXCEPT !.messages = msgs]
       IN /\ IF server_name # None /\ ServiceConnected(server_name)
             THEN /\ sent' = Append(sent, WireRequest(server_name, item.name, item.id, chats))
                  /\ services' = services
                  /\ assistant_content' = ac
                  /\ messages' = msgs
                  /\ cur_tool' = item
                  /\ pc' = "await"
                  /\ thinking_sessions' = Capture(thinking_sessions, capture)
                  /\ UNCHANGED <<drv, response, iter_list, idx, full_response,
                                 process_query, step_count, calls, capture, free, out>>
             ELSE /\ \E e2 \in ModelOutcomes :
                        /\ free >= Cost(e2, drv)
                        /\ free' = free - Cost(e2, drv)
                        /\ LET err == IF server_name = None THEN "not_found"
                                      ELSE "not_connected"
                               eb == ErrorBlock(drv, st, item.id, err, e2)
                           IN IF eb.failed
                              THEN /\ out' = DriverError(drv)
                                   /\ Reset
                              ELSE /\ assistant_content' = ac
                                   /\ messages' = eb.messages
                                   /\ response' = eb.response
                                   /\ calls' = eb.calls
                                   /\ full_response' = eb.full_response
                                   /\ process_query' = eb.process_query
                                   /\ idx' = idx + 1
                                   /\ pc' = AfterItem
                                   /\ UNCHANGED <<drv, iter_list, step_count, cur_tool,
                                                  capture, out>>
                  /\ thinking_sessions' = Capture(Capture(thinking_sessions, capture), capture)
                  /\ UNCHANGED <<sent, services>>
    /\ UNCHANGED <<phase, probed, available_tools, tool_to_server, tools_reply, http_session>>
    /\ UNCHANGED memory_vars
    /\ UNCHANGED <<chats, long_run, files, tool_out, wire_reply>>
    /\ UNCHANGED aux_vars

\* The suspended tools/call request comes back: the rest of the try block,
\* and the except block if the tool or the following model call failed.
ToolReturn ==
    /\ pc = "await"
    /\ \E h \in ToolReplies(cur_tool.name) :
         LET res == CallMcpToolDirect(h)
             c0 == ToolReplyCost(h)
             caches == drv \in {"chat", "enhanced"}
             m == IF res.ok /\ caches
                  THEN CacheEntitiesFromResult(Memory, cur_tool.name, res.text)
                  ELSE Memory
         IN /\ entity_cache' = m.cache
            /\ session_context' = m.ctx
            /\ last_write' = m.lw
            /\ clock' = m.now
            /\ \/ /\ SessionGone(thinking_sessions, capture)
                  /\ free >= c0
                  /\ free' = free - c0
                  /\ out' = SessionGoneError(drv)
                  /\ Reset
                  /\ UNCHANGED thinking_sessions
               \/ /\ ~SessionGone(thinking_sessions, capture)
                  /\ IF res.ok
                     THEN \E e1 \in ModelOutcomes :
                            /\ free >= c0 + Cost(e1, drv)
                            /\ LET rb == ResultBlock(drv, DriverState, cur_tool.id, res.text, e1)
                               IN IF ~rb.failed
                                  THEN /\ Settle(drv, rb)
                                       /\ \E n \in IF IsLoneText(e1.reply)
                                                    THEN TextPhrases(capture) ELSE {0} :
                                             /\ free >= c0 + Cost(e1, drv) + PhraseCost(n)
                                             /\ free' = free - c0 - Cost(e1, drv)
                                                             - PhraseCost(n)
                                             /\ thinking_sessions' =
                                                   ExtractThinkingFromText(
                                                      Capture(thinking_sessions, capture),
                                                      capture, n)
                                  ELSE \E e2 \in ModelOutcomes :
                                         /\ free >= c0 + Cost(e1, drv) + Cost(e2, drv)
                                         /\ free' = free - c0 - Cost(e1, drv) - Cost(e2, drv)
                                         /\ Settle(drv, ErrorBlock(drv, rb, cur_tool.id,
                                                                   "model_error", e2))
                                         /\ thinking_sessions' =
                                              Capture(Capture(thinking_sessions, capture), capture)
                     ELSE \E e2 \in ModelOutcomes :
                            /\ free >= c0 + Cost(e2, drv)
                            /\ free' = free - c0 - Cost(e2, drv)
                            /\ Settle(drv, ErrorBlock(drv, DriverState, cur_tool.id, res.err, e2))
                            /\ thinking_sessions' = Capture(thinking_sessions, capture)
            /\ wire_reply' = h
    /\ UNCHANGED registry_vars
    /\ UNCHANGED <<sent, chats, long_run, files, tool_out>>
    /\ UNCHANGED aux_vars

\* The driver leaves its loop: note, transcript, snapshots, return.
Finalize ==
    /\ pc = "while"
    /\ ~LoopContinues(drv, process_query, step_count)
    /\ LET text == StepNote(drv, step_count, full_response)
           history == session_context.conversation_history
                         \o <<Turn("user", <<"query">>, clock),
                              Turn("assistant", text, clock)>>
           ctx == IF drv = "chat"
                  THEN [session_context EXCEPT
                          !.conversation_history = Tail_n(history, HistoryWindow)]
                  ELSE session_context
       IN /\ session_context' = ctx
          /\ IF drv = "chat"
             THEN \E o1 \in SaveOutcomes, o2 \in SaveOutcomes :
                     /\ free >= SaveCost(o1) + SaveCost(o2)
                     /\ free' = free - SaveCost(o1) - SaveCost(o2)
                     /\ files' = PersistCaches(files, entity_cache, ctx, o1, o2)
                     /\ out' = EnsureMemoryPersistence(ChatResponse(drv, TRUE, text, None),
                                                       o1, o2)
             ELSE /\ out' = ChatResponse(drv, TRUE, text, None)
                  /\ UNCHANGED <<files, free>>
    /\ Reset
    /\ UNCHANGED registry_vars
    /\ UNCHANGED <<entity_cache, last_write, clock>>
    /\ UNCHANGED <<thinking_sessions, sent, chats, long_run, tool_out, wire_reply>>
    /\ UNCHANGED aux_vars

\* s without its i-th element.
RemoveAt(s, i) == SubSeq(s, 1, i - 1) \o SubSeq(s, i + 1, Len(s))

\* POST /api/call-tool up to 'async with self.http_session.post': the
\* request is refused, or it is put on the wire and the handler waits.  It
\* is served between requests or while a request waits for its tool.
CallTool(service, tool_name) ==
    /\ phase = "serving"
    /\ pc \in {"idle", "await"}
    /\ free > 0
    /\ free' = free - 1
    /\ IF ~ServiceConnected(service)
       THEN /\ tool_out' = [seq |-> tool_out.seq + 1, service |-> service, status |-> 503,
                            success |-> FALSE, data |-> None]
            /\ UNCHANGED <<services, sent, in_flight>>
       ELSE /\ services' = [services EXCEPT ![service].last_activity = "time"]
            /\ sent' = Append(sent, WireRequest(service, tool_name, 0, 0))
            /\ in_flight' = Append(in_flight, [service |-> service, tool |-> tool_name])
            /\ UNCHANGED tool_out
    /\ UNCHANGED <<phase, probed, available_tools, tool_to_server, tools_reply, http_session>>
    /\ UNCHANGED driver_vars
    /\ UNCHANGED memory_vars
    /\ UNCHANGED <<thinking_sessions, chats, long_run, files, out, wire_reply>>
    /\ UNCHANGED <<system_prompt, conversation_history, thinking_out, health_reply, peer_pc>>

\* The backend answers one of the waiting /api/call-tool requests, in any
\* order: the rest of _execute_mcp_tool_http and of the handler.
CallToolReturn ==
    /\ pc \in {"idle", "await"}
    /\ \E i \in 1..Len(in_flight) :
         \E h \in ToolReplies(in_flight[i].tool) :
            LET res == ExecuteMcpToolHttp(h)
                c == CallReplyCost(in_flight[i].tool, h)
            IN /\ free >= c
               /\ free' = free - c
               /\ tool_out' = [seq |-> tool_out.seq + 1, service |-> in_flight[i].service,
                               status |-> 200,
                               success |-> res.ok,
                               data |-> IF res.ok THEN res.text ELSE res.err]
               /\ in_flight' = RemoveAt(in_flight, i)
    /\ UNCHANGED registry_vars
    /\ UNCHANGED driver_vars
    /\ UNCHANGED memory_vars
    /\ UNCHANGED <<thinking_sessions, sent, chats, long_run, files, out, wire_reply>>
    /\ UNCHANGED <<system_prompt, conversation_history, thinking_out, health_reply, peer_pc>>

\* DELETE /api/thinking/{session_id}: served between requests or while a
\* request waits for its tool.
DeleteThinkingSession(sid) ==
    /\ phase = "serving"
    /\ pc \in {"idle", "await"}
    /\ free > 0
    /\ free' = free - 1
    /\ IF sid \in DOMAIN thinking_sessions
       THEN /\ thinking_sessions' = DeleteSession(thinking_sessions, sid)
            /\ thinking_out' = [seq |-> thinking_out.seq + 1, op |-> "delete",
                                session_id |-> sid, status |-> 200,
                                remaining_sessions |-> Cardinality(DOMAIN thinking_sessions')]
       ELSE /\ thinking_out' = [seq |-> thinking_out.seq + 1, op |-> "delete",
                                session_id |-> sid, status |-> 404,
                                remaining_sessions |-> 0]
            /\ UNCHANGED thinking_sessions
    /\ UNCHANGED registry_vars
    /\ UNCHANGED driver_vars
    /\ UNCHANGED memory_vars
    /\ UNCHANGED <<sent, chats, long_run, files, out, tool_out, wire_reply>>
    /\ UNCHANGED <<system_prompt, conversation_history, health_reply, peer_pc, in_flight>>

\* A DELETE request for one session: an id the gateway knows, or one it
\* does not.
DeleteThinkingSessionRequest ==
    \E sid \in DOMAIN thinking_sessions \cup {UnknownSession} : DeleteThinkingSession(sid)

\* DELETE /api/thinking-sessions
DeleteAllThinkingSessions ==
    /\ phase = "serving"
    /\ pc \in {"idle", "await"}
    /\ free > 0
    /\ free' = free - 1
    /\ thinking_sessions' = <<>>
    /\ thinking_out' = [seq |-> thinking_out.seq + 1, op |-> "delete_all",
                        session_id |-> UnknownSession, status |-> 200,
                        remaining_sessions |-> 0]
    /\ UNCHANGED registry_vars
    /\ UNCHANGED driver_vars
    /\ UNCHANGED memory_vars
    /\ UNCHANGED <<sent, chats, long_run, files, out, tool_out, wire_reply>>
    /\ UNCHANGED <<system_prompt, conversation_history, health_reply, peer_pc, in_flight>>

\* _stop_mcp_services up to its first suspension: _persist_caches writes the
\* two snapshots.
StopServices ==
    /\ phase = "serving"
    /\ pc = "idle"
    /\ in_flight = <<>>
    /\ \E o1 \in SaveOutcomes, o2 \in SaveOutcomes :
          /\ free >= SaveCost(o1) + SaveCost(o2)
          /\ free' = free - SaveCost(o1) - SaveCost(o2)
          /\ files' = PersistCaches(files, entity_cache, session_context, o1, o2)
    /\ phase' = "stopping"
    /\ UNCHANGED <<probed, services, available_tools, tool_to_server, tools_reply, http_session>>
    /\ UNCHANGED driver_vars
    /\ UNCHANGED memory_vars
    /\ UNCHANGED <<thinking_sessions, sent, chats, long_run, out, tool_out, wire_reply>>
    /\ UNCHANGED aux_vars

\* A shutdown that leaves the session open when the snapshot file does not
\* hold the document it was to hold.
CloseSessionIfSaved(session, file) ==
    IF file.state = "ok" THEN "closed" ELSE session

\* if self.http_session: await self.http_session.close()
CloseSession(session, file) == IF session # "none" THEN "closed" ELSE session

\* _stop_mcp_services after the snapshots: the outbound session is closed.
CloseHttpSession ==
    /\ phase = "stopping"
    /\ http_session' = CloseSession(http_session, files.cache)
    /\ phase' = "stopped"
    /\ UNCHANGED <<probed, services, available_tools, tool_to_server, tools_reply>>
    /\ UNCHANGED driver_vars
    /\ UNCHANGED memory_vars
    /\ UNCHANGED <<thinking_sessions, sent, free, chats, long_run, files, out, tool_out,
                   wire_reply>>
    /\ UNCHANGED aux_vars

\* The requests made to /api/call-tool: service and tool_name.
CallRequests == {<<"salesforce", "salesforce_query">>, <<"jira", "ghost_tool">>}

Next ==
    \/ StartServices
    \/ \E s \in ServiceSet : ConnectToService(s)
    \/ CollectAvailableTools
    \/ \E d \in Drivers, cap \in BOOLEAN : ChatStart(d, cap)
    \/ WhileIter
    \/ ForText
    \/ ForToolUse
    \/ ToolReturn
    \/ Finalize
    \/ \E c \in CallRequests : CallTool(c[1], c[2])
    \/ CallToolReturn
    \/ DeleteThinkingSessionRequest
    \/ DeleteAllThinkingSessions
    \/ StopServices
    \/ CloseHttpSession

Spec == Init /\ [][Next]_vars

\* ------------------------------------------- two requests at the same time
\* A second POST /api/chat that is handled while the first is in flight.
\* The handlers are coroutines on one event loop, and the calls of the model
\* are synchronous, so a request gives way to another only at
\* 'await self._call_mcp_tool'.  The second request is followed through the
\* shared tables only: its own message list is private to it.
PeerTool == "salesforce_query"
PeerReplies == {HttpOk(JsonDict(OppOnTrack)), Http500}

\* _process_chat_query of the second request up to its tool call: it builds
\* its system prompt from the shared memory and its first model reply asks
\* for PeerTool.  It is taken up while the first request waits for a tool.
PeerStart ==
    /\ phase = "serving"
    /\ drv = "chat"
    /\ pc = "await"
    /\ peer_pc = "idle"
    /\ available_tools # <<>>
    /\ Resolve(PeerTool) # None
    /\ ServiceConnected(Resolve(PeerTool))
    /\ peer_pc' = "await"
    /\ system_prompt' = BuildPrompt
    /\ sent' = Append(sent, WireRequest(Resolve(PeerTool), PeerTool, 11, -1))
    /\ UNCHANGED registry_vars
    /\ UNCHANGED driver_vars
    /\ UNCHANGED memory_vars
    /\ UNCHANGED <<thinking_sessions, free, chats, long_run, files, out, tool_out,
                   wire_reply>>
    /\ UNCHANGED <<conversation_history, thinking_out, health_reply, in_flight>>

\* The tool call of the second request comes back: the result is cached,
\* the model answers with a lone text (with the error text after a failed
\* call), the two turns are stored and the snapshots are written; a write
\* may fail as it may for the first request.
PeerReturn ==
    /\ peer_pc = "await"
    /\ \E h \in PeerReplies :
         LET res == CallMcpToolDirect(h)
             m == IF res.ok THEN CacheEntitiesFromResult(Memory, PeerTool, res.text)
                  ELSE Memory
             text == IF res.ok THEN TextAfterResult("chat", <<>>, TextItem)
                     ELSE TextAfterError("chat", <<>>, TextItem)
             history == m.ctx.conversation_history
                           \o <<Turn("user", <<"query">>, m.now),
                                Turn("assistant", text, m.now)>>
             ctx == [m.ctx EXCEPT !.conversation_history = Tail_n(history, HistoryWindow)]
         IN /\ entity_cache' = m.cache
            /\ session_context' = ctx
            /\ last_write' = m.lw
            /\ clock' = m.now
            /\ \E o1 \in SaveOutcomes, o2 \in SaveOutcomes :
                  /\ free >= SaveCost(o1) + SaveCost(o2)
                  /\ free' = free - SaveCost(o1) - SaveCost(o2)
                  /\ files' = PersistCaches(files, m.cache, ctx, o1, o2)
    /\ peer_pc' = "done"
    /\ UNCHANGED registry_vars
    /\ UNCHANGED driver_vars
    /\ UNCHANGED <<thinking_sessions, sent, chats, long_run, out, tool_out,
                   wire_reply>>
    /\ UNCHANGED <<system_prompt, conversation_history, thinking_out, health_reply,
                   in_flight>>

NextPair ==
    \/ Next
    \/ PeerStart
    \/ PeerReturn

\* One request, and a second request beside it.
InitPair == InitWith(NoFiles, MaxFree, MaxChats - 1, "none")

SpecPair == InitPair /\ [][NextPair]_vars

\* Two chat requests, one after the other.
InitTurns == \E fs \in {NoFiles, SavedFiles} : InitWith(fs, MaxFree, 0, "turns")

SpecTurns == InitTurns /\ [][Next]_vars

\* Every combination of missing, damaged and readable snapshot files.
InitBoot ==
    \E c \in {NoFile, BadFile, [state |-> "ok", text |-> JsonText(SavedCache)]},
       x \in {NoFile, BadFile, [state |-> "ok", text |-> JsonText(FullContext)]},
       h \in {NoFile, BadFile, [state |-> "ok", text |-> JsonText(SavedConversations)]} :
       InitWith([cache |-> c, context |-> x, conversation |-> h], MaxFree - 1, 0, "none")

SpecBoot == InitBoot /\ [][Next]_vars

SpecLong == InitLong /\ [][Next]_vars

\* A gateway that starts from the snapshots of an earlier run, the stored
\* transcript filling its window.
InitWarm ==
    InitWith([cache |-> [state |-> "ok", text |-> JsonText(SavedCache)],
              context |-> [state |-> "ok", text |-> JsonText(FullContext)],
              conversation |-> NoFile],
             MaxFree, MaxChats - 1, "none")

SpecWarm == InitWarm /\ [][Next]_vars

\* A traced chat in which the model may go on requesting the plain tool.
InitTrace == InitWith(NoFiles, MaxFree, MaxChats - 1, "thinking")

SpecTrace == InitTrace /\ [][Next]_vars

\* ================================================================ claims
\* The tool_use item the driver is working on.
CurrentId == IF pc = "await" THEN cur_tool.id ELSE iter_list[idx].id

\* The tool_result messages that answer tool_use id.
ResultsFor(msgs, id) ==
    {i \in 1..Len(msgs) : msgs[i].kind = "tool_result" /\ msgs[i].tool_use_id = id}

\* A step in which the suspended tools/call request comes back.
ToolReturned == pc = "await" /\ pc' # "await"

\* A step in which a tool_use item is not dispatched to any backend.
ToolRefused == pc = "for" /\ iter_list[idx].type = "tool_use" /\ pc' # "await"

\* C1: every driver loop stops after at most 15 iterations: no driver ever
\* starts a 16th pass over response.content.
C1_LoopsStopAtCeiling == step_count <= max_steps

\* C2 (as stated): the complex-task reply ends with the step note when the
\* ceiling stopped the loop, and carries no note when the model ended the
\* turn with a lone text.
C2_NoteOnlyWhenCutOff ==
    [][(drv = "enhanced" /\ pc = "while" /\ pc' = "idle") =>
         IF process_query
         THEN out'.response # <<>> /\ Last(out'.response) = "step_note"
         ELSE "step_note" \notin SeqToSet(out'.response)]_vars

\* C2 (amended): the complex-task reply ends with the step note exactly when
\* 15 iterations were run, whether the ceiling cut the loop or the model's
\* final text arrived in the 15th iteration; a loop cut by the ceiling always
\* gets the note and a non-empty reply.
C2_NoteIffFifteenSteps ==
    [][(drv = "enhanced" /\ pc = "while" /\ pc' = "idle") =>
         /\ (out'.response # <<>> /\ Last(out'.response) = "step_note")
               <=> step_count >= max_steps
         /\ step_count < max_steps => "step_note" \notin SeqToSet(out'.response)
         /\ process_query => step_count = max_steps /\ out'.response # <<>>]_vars

C2_Witness ==
    /\ out.drv = "enhanced"
    /\ out.response # <<>>
    /\ Last(out.response) = "step_note"
    /\ Len(sent) >= max_steps

\* C3: a model response with zero content items finishes the request at
\* once with the text accumulated so far, without a further model call or
\* tool dispatch.
C3_EmptyReplyFinishesAtOnce ==
    [][(pc = "while" /\ process_query /\ response = <<>>) =>
         (pc' = "idle" /\ out'.response = full_response /\ sent' = sent)]_vars

\* C4: a tool name that is not in tool_to_server is never sent to a backend;
\* a tool-error result with the request's tool_use_id is appended and the
\* model is called again.
C4_UnknownToolNotSent ==
    [][(pc = "for" /\ iter_list[idx].type = "tool_use"
          /\ iter_list[idx].name \notin DOMAIN tool_to_server) =>
         /\ sent' = sent
         /\ pc' # "await"
         /\ pc' # "idle" =>
               /\ Last(messages').kind = "tool_result"
               /\ Last(messages').tool_use_id = iter_list[idx].id
               /\ Last(messages').error = "not_found"
               /\ calls' = calls + 1]_vars

C4_Witness ==
    /\ pc # "idle"
    /\ \E i \in 1..Len(messages) :
          /\ messages[i].kind = "tool_result"
          /\ messages[i].error = "not_found"
    /\ \A i \in 1..Len(sent) : sent[i].tool # "ghost_tool"

\* C5: a failed tool dispatch (unknown tool, transport error or timeout,
\* error reported by the backend) becomes a tool_result message followed by
\* another model call: the driver goes on with that message and one more
\* model call made, and the request ends at that step only when this model
\* call raises, with the model's error text in a successful reply.
C5_ToolFailureAbsorbed ==
    [][(\/ ToolRefused
        \/ ToolReturned /\ (~CallMcpToolDirect(wire_reply').ok
                              \/ wire_reply'.result = "null")) =>
         /\ pc' # "idle" =>
               /\ ResultsFor(messages', CurrentId) # {}
               /\ Last(messages').kind = "tool_result"
               /\ calls' > calls
         /\ pc' = "idle" => out' = DriverError(drv)]_vars

\* C6: when the model call raises, the chat response has success=false, a
\* generic apology in response and the error text in error.
C6_ModelErrorFailsChat ==
    [][(pc \in {"for", "await"} /\ pc' = "idle") =>
         /\ out'.success = FALSE
         /\ out'.response = <<"apology">>
         /\ out'.error # None]_vars

\* C7: no tools/call request goes to a service whose connected flag is
\* false, and /api/call-tool on such a service answers 503 without sending
\* anything.
C7_NoCallToDisconnected ==
    /\ [](\A i \in 1..Len(sent) : sent[i].connected)
    /\ [][(tool_out'.seq # tool_out.seq /\ ~services[tool_out'.service].connected) =>
            (tool_out'.status = 503 /\ ~tool_out'.success /\ sent' = sent)]_vars

C7_Witness ==
    /\ phase = "serving"
    /\ tool_out.status = 503
    /\ ~services[tool_out.service].connected
    /\ \E s \in ServiceSet : services[s].connected

\* C8: within one request the tool requests go out in the order the model
\* emitted them, the one in flight is the latest, and none goes out twice.
C8_DispatchInOrderOnce ==
    /\ \A i, j \in 1..Len(sent) :
          (i < j /\ sent[i].req = sent[j].req /\ sent[i].req # 0)
             => sent[i].id < sent[j].id
    /\ pc = "await" =>
          /\ \E i \in 1..Len(sent) : sent[i].req = chats /\ sent[i].id = cur_tool.id
          /\ \A i \in 1..Len(sent) : sent[i].req = chats => sent[i].id <= cur_tool.id

C8_Witness ==
    /\ pc = "await"
    /\ \E i \in 1..Len(sent) :
          /\ sent[i].req = chats
          /\ sent[i].id < cur_tool.id
          /\ \E k \in ResultsFor(messages, sent[i].id) : messages[k].error # None

\* C9: the entity cache holds, for every key written, exactly the payload
\* and cached_at of the latest write to that key.
C9_LatestWriteWins ==
    \A k \in DOMAIN last_write :
       /\ k \in DOMAIN entity_cache
       /\ entity_cache[k].data = last_write[k].data
       /\ entity_cache[k].cached_at = last_write[k].cached_at

C9_Witness ==
    /\ <<"Opportunity", "006A">> \in DOMAIN last_write
    /\ entity_cache[<<"Opportunity", "006A">>].data = OppOnTrack
    /\ session_context.at_risk_opportunities # <<>>

\* C10: a tool result that is not parseable JSON changes neither the entity
\* cache nor the session facts, and reaches the model unchanged as the tool
\* result.
C10_MalformedResultPassedThrough ==
    [][(ToolReturned /\ drv \in {"chat", "enhanced"}
          /\ CallMcpToolDirect(wire_reply').ok
          /\ ~ParsesAsJson(CallMcpToolDirect(wire_reply').text)) =>
         /\ entity_cache' = entity_cache
         /\ session_context' = session_context
         /\ pc' # "idle" =>
               \E i \in ResultsFor(messages', cur_tool.id) :
                  /\ messages'[i].error = None
                  /\ messages'[i].text = CallMcpToolDirect(wire_reply').text]_vars

C10_Witness ==
    /\ drv \in {"chat", "enhanced"}
    /\ pc \in {"for", "while"}
    /\ wire_reply.kind = "200"
    /\ wire_reply.result = "content"
    /\ wire_reply.text = BadJson
    /\ \E i \in 1..Len(messages) :
          messages[i].kind = "tool_result" /\ messages[i].text = BadJson

\* C12: loading a snapshot that was just saved gives back the entity cache
\* (same keys, same values) and the session context with its transcript,
\* and the saved transcript is never longer than the window of 20 turns.
C12_SaveLoadRoundTrip ==
    [][/\ (files'.cache # files.cache /\ files'.cache.state = "ok") =>
            LoadCacheFromFile(files'.cache, <<>>) = entity_cache'
       /\ (files'.context # files.context /\ files'.context.state = "ok") =>
            /\ LoadCacheFromFile(files'.context, EmptyContext) = session_context'
            /\ LoadCacheFromFile(files'.context, EmptyContext).conversation_history
                  = session_context'.conversation_history
            /\ Len(session_context'.conversation_history) <= HistoryWindow]_vars

C12_Witness ==
    /\ out.drv = "chat"
    /\ files.cache.state = "ok"
    /\ \E k \in DOMAIN last_write :
          /\ k \in DOMAIN LoadCacheFromFile(files.cache, <<>>)
          /\ LoadCacheFromFile(files.cache, <<>>)[k].cached_at =
                IsoFormat(Datetime(clock - 1))
    /\ files.context.state = "ok"
    /\ LET loaded == LoadCacheFromFile(files.context, EmptyContext).conversation_history
       IN /\ Len(loaded) = HistoryWindow
          /\ loaded[1].content = <<3>>
          /\ loaded[HistoryWindow] = Turn("assistant", out.response, clock)

\* C13: at construction each snapshot file is loaded by itself: a missing
\* or unreadable file gives the empty cache, context or history, a readable
\* one gives its document, whatever the state of the other files.
C13_BadSnapshotLoadsEmpty ==
    phase = "created" =>
       /\ entity_cache = IF files.cache.state = "ok" THEN SavedCache ELSE <<>>
       /\ session_context = IF files.context.state = "ok" THEN FullContext
                             ELSE EmptyContext
       /\ conversation_history = IF files.conversation.state = "ok"
                                  THEN SavedConversations.conversations ELSE <<>>

C13_Witness ==
    /\ phase = "serving"
    /\ chats = 0
    /\ files.cache.state = "partial"
    /\ files.context.state = "ok"
    /\ files.conversation.state = "absent"
    /\ entity_cache = <<>>
    /\ Len(session_context.conversation_history) = HistoryWindow
    /\ conversation_history = <<>>

\* C14: a snapshot write that fails changes nothing else: the chat request
\* returns the reply it computed, and the entity cache, the session facts
\* and the transcript are what they are after a successful write.
C14_FailedWriteIsSwallowed ==
    [][(drv = "chat" /\ pc = "while" /\ pc' = "idle") =>
         /\ out' = ChatResponse("chat", TRUE, full_response, None)
         /\ entity_cache' = entity_cache
         /\ Facts(session_context') = Facts(session_context)
         /\ session_context'.conversation_history =
               Tail_n(session_context.conversation_history
                        \o <<Turn("user", <<"query">>, clock),
                             Turn("assistant", full_response, clock)>>,
                      HistoryWindow)]_vars

C14_Witness ==
    /\ out.drv = "chat"
    /\ out.success
    /\ out.response # <<>>
    /\ files.cache.state = "partial"
    /\ Len(session_context.conversation_history) = 2
    /\ session_context.conversation_history[2].content = out.response

\* C15: every request whose driver runs to the end of its loop, whichever
\* driver serves it, appends the user turn and the assistant turn to the
\* transcript and writes the two snapshots before it returns.
C15_EveryDriverStoresTurns ==
    [][(pc = "while" /\ pc' = "idle") =>
         /\ session_context'.conversation_history =
               Tail_n(session_context.conversation_history
                        \o <<Turn("user", <<"query">>, clock),
                             Turn("assistant", out'.response, clock)>>,
                      HistoryWindow)
         /\ \E o1 \in SaveOutcomes, o2 \in SaveOutcomes :
               /\ free' = free - SaveCost(o1) - SaveCost(o2)
               /\ files' = PersistCaches(files, entity_cache', session_context', o1, o2)]_vars

\* C16: a chat request that finds the tool catalog empty returns a
\* text-only reply at once: the request is reported as successful, no
\* model call and no tool dispatch is made, and nothing is raised.
C16_EmptyCatalogRepliesText ==
    [][(chats' # chats /\ available_tools = <<>>) =>
         /\ out'.success
         /\ out'.error = None
         /\ out'.response = <<"no_tools">>
         /\ pc' = "idle"
         /\ sent' = sent
         /\ calls' = calls]_vars

C16_Witness ==
    /\ phase = "serving"
    /\ available_tools = <<>>
    /\ chats = 1
    /\ out.drv = "thinking"
    /\ out.success
    /\ out.response = <<"no_tools">>
    /\ sent = <<>>

\* C17: the probe of a service leaves it connected with health score 1.0
\* and no error when the health request answered with HTTP status 200, and
\* disconnected with health score 0.0 and the error recorded otherwise; the
\* fields of the other service do not change.
C17_ProbeSetsOneService ==
    [][\A s \in ServiceSet : (s \in probed' /\ s \notin probed) =>
         /\ HealthStatus200(Last(health_reply'[s])) <=> services'[s].connected
         /\ services'[s].connected =>
               /\ services'[s].health_score = 10
               /\ services'[s].error = None
         /\ ~services'[s].connected =>
               /\ services'[s].health_score = 0
               /\ services'[s].error = Last(health_reply'[s])
         /\ \A t \in ServiceSet \ {s} : services'[t] = services[t]]_vars

C17_Witness ==
    /\ phase = "serving"
    /\ ~services["salesforce"].connected
    /\ services["salesforce"].health_score = 0
    /\ services["salesforce"].error = "500"
    /\ services["jira"].connected
    /\ services["jira"].health_score = 10
    /\ services["jira"].error = None
    /\ available_tools # <<>>

\* C18: a catalog rebuild leaves exactly what this run's discovery returned
\* from the connected services, in service order: no entry of a service
\* that is not connected, the names of the index are the names of the list,
\* and a name returned by both services is mapped to the later one.
C18_CatalogIsRebuilt ==
    [][(phase = "probing" /\ phase' = "serving") =>
         /\ \A s \in ServiceSet : tools_reply'[s] # <<>> <=> services[s].connected
         /\ LET Returned(s) == IF services[s].connected
                               THEN GetServiceTools(s, Last(tools_reply'[s])) ELSE <<>>
            IN available_tools' = Returned(Services[1]) \o Returned(Services[2])
         /\ \A i \in 1..Len(available_tools') :
               services[available_tools'[i].service].connected
         /\ DOMAIN tool_to_server' =
               {available_tools'[i].name : i \in 1..Len(available_tools')}
         /\ \A n \in DOMAIN tool_to_server' :
               LET from == {k \in 1..Len(Services) :
                              \E i \in 1..Len(available_tools') :
                                 /\ available_tools'[i].name = n
                                 /\ available_tools'[i].service = Services[k]}
               IN \A k \in from : tool_to_server'[n] = Services[k] <=>
                                     (\A j \in from : j <= k)]_vars

C18_Witness ==
    /\ phase = "serving"
    /\ SharedTool \in DOMAIN tool_to_server
    /\ tool_to_server[SharedTool] = "jira"
    /\ \E i \in 1..Len(available_tools) :
          available_tools[i] = [name |-> SharedTool, service |-> "salesforce"]
    /\ \E i \in 1..Len(available_tools) :
          available_tools[i] = [name |-> SharedTool, service |-> "jira"]

\* C19: the system prompt built for the second of two chat turns names the
\* identifier of every entity that was cached during the first turn.
C19_NextPromptNamesCachedEntity ==
    [][(chats = 1 /\ chats' = 2 /\ system_prompt'.n # system_prompt.n) =>
         \A k \in DOMAIN last_write : k[2] \in PromptIds(system_prompt'.text)]_vars

\* The summaries of IssueHot and IssueTodo in the critical issues.
HotSummary == [key |-> "TECH-1", summary |-> "db slow", status |-> "Blocked",
               priority |-> "High"]

TodoSummary == [key |-> "TECH-2", summary |-> "", status |-> "To Do", priority |-> "Low"]

\* A caching driver receives the document doc from jira_get_issue.
JiraSeen(doc) ==
    /\ ToolReturned
    /\ drv \in {"chat", "enhanced"}
    /\ cur_tool.name = "jira_get_issue"
    /\ wire_reply' = HttpOk(JsonDict(doc))

\* C20: a Jira issue seen in a tool result is stored in the entity cache
\* under its key, and when its priority is High or Highest or its status is
\* Blocked or To Do exactly one summary of it is appended to the critical
\* issues: one when both conditions hold, none when neither does, and one
\* more when the issue is already in the list; an issue with a blank key
\* is left out.  This holds for the document jira_get_issue returns and
\* for an issue whose priority is unset as well.
C20_CriticalIssueAppendedOnce ==
    [][/\ JiraSeen(IssueHot) =>
            /\ entity_cache'[<<"Jira", "TECH-1">>].data = IssueHot
            /\ session_context'.critical_jira_issues =
                  Append(session_context.critical_jira_issues, HotSummary)
       /\ JiraSeen(IssueDone) =>
            /\ entity_cache'[<<"Jira", "TECH-1">>].data = IssueDone
            /\ session_context'.critical_jira_issues =
                  session_context.critical_jira_issues
       /\ JiraSeen(IssueSearch) =>
            /\ entity_cache'[<<"Jira", "TECH-1">>].data = IssueHot
            /\ entity_cache'[<<"Jira", "TECH-2">>].data = IssueTodo
            /\ <<"Jira", "">> \notin DOMAIN entity_cache'
            /\ session_context'.critical_jira_issues =
                  session_context.critical_jira_issues \o <<HotSummary, TodoSummary>>
       /\ JiraSeen(IssueFlat) =>
            /\ entity_cache'[<<"Jira", "TECH-1">>].data = IssueFlat
            /\ Len(session_context'.critical_jira_issues) =
                  Len(session_context.critical_jira_issues) + 1
            /\ Last(session_context'.critical_jira_issues).key = "TECH-1"
            /\ Last(session_context'.critical_jira_issues).status = "Blocked"
       /\ JiraSeen(IssueUnranked) =>
            /\ entity_cache'[<<"Jira", "TECH-3">>].data = IssueUnranked
            /\ Len(session_context'.critical_jira_issues) =
                  Len(session_context.critical_jira_issues) + 1
            /\ Last(session_context'.critical_jira_issues).key = "TECH-3"]_vars

\* C21: a failure envelope of a backend makes the invocation fail: the
\* driver answers the tool request with an error result, and /api/call-tool
\* never reports success with the text of a null result.
C21_FailureEnvelopeFailsTheCall ==
    [][/\ (ToolReturned /\ wire_reply' \in {HttpErrorEnvelope, HttpToolFailed}
                        /\ pc' # "idle") =>
            \A i \in ResultsFor(messages', cur_tool.id) : messages'[i].error # None
       /\ tool_out'.success => tool_out'.data # NoneText]_vars

\* C22: a thinking session appears only when a traced chat call with
\* capture switched on starts; a snapshot file that is written holds the
\* entity cache or the session context and nothing else; a delete by id
\* removes that session and no other, or answers 404 and changes nothing
\* when the id is unknown; a bulk delete leaves the store empty.
C22_ThinkingSessionLifecycle ==
    [][/\ (DOMAIN thinking_sessions' \ DOMAIN thinking_sessions # {}) =>
            /\ chats' = chats + 1
            /\ DOMAIN thinking_sessions' = DOMAIN thinking_sessions \cup {clock}
            /\ capture' = clock \/ out' = DriverError("thinking")
       /\ (files' # files) =>
            /\ files'.conversation = files.conversation
            /\ (files'.cache # files.cache /\ files'.cache.state = "ok") =>
                  JsonLoad(files'.cache.text) = entity_cache'
            /\ (files'.context # files.context /\ files'.context.state = "ok") =>
                  JsonLoad(files'.context.text) = session_context'
       /\ (thinking_out'.seq # thinking_out.seq /\ thinking_out'.op = "delete") =>
            LET sid == thinking_out'.session_id
            IN IF sid \in DOMAIN thinking_sessions
               THEN /\ thinking_out'.status = 200
                    /\ DOMAIN thinking_sessions' = DOMAIN thinking_sessions \ {sid}
                    /\ \A k \in DOMAIN thinking_sessions' :
                          thinking_sessions'[k] = thinking_sessions[k]
                    /\ thinking_out'.remaining_sessions =
                          Cardinality(DOMAIN thinking_sessions) - 1
               ELSE /\ thinking_out'.status = 404
                    /\ thinking_sessions' = thinking_sessions
       /\ (thinking_out'.seq # thinking_out.seq /\ thinking_out'.op = "delete_all") =>
            /\ thinking_sessions' = <<>>
            /\ thinking_out'.status = 200]_vars

C22_Witness ==
    /\ chats = 2
    /\ pc = "idle"
    /\ thinking_out.op = "delete"
    /\ thinking_out.status = 200
    /\ thinking_out.remaining_sessions = 1
    /\ Cardinality(DOMAIN thinking_sessions) = 1
    /\ thinking_out.session_id \notin DOMAIN thinking_sessions
    /\ files.context.state = "absent"

\* A backend whose tool list discovery has put into the catalog.
Discovered(service) ==
    /\ phase = "serving"
    /\ \E i \in 1..Len(available_tools) : available_tools[i].service = service

\* C23: discovery on a backend returns exactly 5 tools for Salesforce and
\* exactly 3 tools for Jira.
C23_FiveAndThreeTools ==
    /\ Discovered("salesforce") => Len(GetTools("salesforce")) = 5
    /\ Discovered("jira") => Len(GetTools("jira")) = 3

\* C24: a model response is replaced by the next model call only after all
\* its items were inspected: it is the list the for loop is working on, or
\* the lone text whose text was taken into the reply, or it has no items.
C24_ResponseInspectedBeforeReplaced ==
    [][(pc \in {"for", "await"} /\ pc' # "idle" /\ response' # response) =>
         \/ response = iter_list
         \/ IsLoneText(response)
         \/ response = <<>>]_vars

\* C25: when a tool invocation returns a recognizable record, the record is
\* in the entity cache once the invocation has been handled, whichever driver
\* made it and also when /api/call-tool made it.
C25_RecordsCachedOnEveryPath ==
    [][/\ (ToolReturned /\ wire_reply' = HttpOk(JsonDict(OppAtRisk))) =>
            /\ <<"Opportunity", "006A">> \in DOMAIN entity_cache'
            /\ entity_cache'[<<"Opportunity", "006A">>].data = OppAtRisk
       /\ (tool_out'.seq # tool_out.seq /\ tool_out'.success
             /\ tool_out'.data = JsonDict(OppAtRisk)) =>
            /\ <<"Opportunity", "006A">> \in DOMAIN entity_cache'
            /\ entity_cache'[<<"Opportunity", "006A">>].data = OppAtRisk]_vars

\* The predicate under which an issue is tracked as critical.
IsCritical(issue) ==
    LET fields == Get(issue, "fields", <<>>)
    IN \/ Get(fields, "priority", "") \in {"High", "Highest"}
       \/ Get(fields, "status", "") \in {"Blocked", "To Do"}

\* The session facts that a step has appended for a key.
NewCritical(key) ==
    {i \in (Len(session_context.critical_jira_issues) + 1)
             ..Len(session_context'.critical_jira_issues) :
        session_context'.critical_jira_issues[i].key = key}

NewAtRisk(id) ==
    {i \in (Len(session_context.at_risk_opportunities) + 1)
             ..Len(session_context'.at_risk_opportunities) :
        session_context'.at_risk_opportunities[i].id = id}

\* C26: entity extraction is atomic per entity: a step that writes a record
\* which matches the at-risk or the critical predicate to the cache also
\* appends the session fact derived from it, also when the extraction of the
\* record fails part-way.
C26_ExtractionIsAtomic ==
    [][\A k \in DOMAIN entity_cache' :
          (k \notin DOMAIN entity_cache \/ entity_cache'[k] # entity_cache[k]) =>
             /\ (k[1] = "Jira" /\ IsCritical(entity_cache'[k].data))
                   => NewCritical(k[2]) # {}
             /\ (k[1] = "Opportunity"
                   /\ Get(entity_cache'[k].data, "Implementation_Status__c", None)
                        = "At Risk")
                   => NewAtRisk(k[2]) # {}]_vars

\* A snapshot file holds the previous snapshot or the complete new one.
WholeSnapshot(before, after, data) ==
    after = before \/ after = [state |-> "ok", text |-> JsonText(data)]

\* C27: a snapshot write that is interrupted leaves the file holding the
\* complete previous snapshot or the complete new one, and a later load of a
\* file that held a non-empty snapshot never returns the empty cache.
C27_InterruptedWriteKeepsSnapshot ==
    [][/\ WholeSnapshot(files.cache, files'.cache, entity_cache')
       /\ WholeSnapshot(files.context, files'.context, session_context')
       /\ LoadCacheFromFile(files.cache, <<>>) # <<>>
             => LoadCacheFromFile(files'.cache, <<>>) # <<>>]_vars

\* C28: in the message list sent to the model every tool request is
\* answered by exactly one tool_result that carries its tool_use_id: after
\* the step that handles a request, while the driver goes on, the list holds
\* one result for it, never two and never none.
C28_OneResultPerRequest ==
    [][((ToolReturned \/ ToolRefused) /\ pc \in {"for", "await"} /\ pc' # "idle"
          /\ (pc = "for" => iter_list[idx].type = "tool_use")) =>
          Cardinality(ResultsFor(messages', CurrentId)) = 1]_vars

\* C29: the gateway marks a backend connected only if the health endpoint
\* of the backend reported status "healthy": a backend that answered
\* "unhealthy" is not connected and none of its tools is in the catalog.
C29_OnlyHealthyIsConnected ==
    \A s \in ServiceSet :
       (Len(health_reply[s]) > 0 /\ Last(health_reply[s]) = "200_unhealthy") =>
          /\ ~services[s].connected
          /\ \A i \in 1..Len(available_tools) : available_tools[i].service # s

\* C30: the tool list exposed to the model holds each tool name at most
\* once, also when two backends return a tool with the same name.
C30_ToolNamesAreUnique ==
    \A i, j \in 1..Len(available_tools) :
       available_tools[i].name = available_tools[j].name => i = j

\* C32: deleting thinking sessions while a traced request is suspended in a
\* tool invocation does not change the outcome of the request: when the tool
\* call comes back the request goes on and does not end in the error reply.
C32_DeleteDoesNotFailTheCall ==
    [][(ToolReturned /\ drv = "thinking" /\ SessionGone(thinking_sessions, capture)) =>
          /\ pc' # "idle"
          /\ out' = out]_vars

\* A tools/call request that ended in a transport error or a timeout.
TransportFailure(kind) == kind \in {HttpTransport.kind, HttpTimeout.kind}

\* The health score of service s went down, not below 0, and its connected
\* flag stayed.
HealthDegraded(s) ==
    /\ services'[s].health_score < services[s].health_score
    /\ services'[s].health_score >= 0
    /\ services'[s].connected = services[s].connected

\* C33: when a tool invocation on a service fails with a transport error or
\* a timeout, the health score of that service is lower afterwards (never
\* below 0.0) and its connected flag is as it was, for a tool call of a chat
\* and for a call through /api/call-tool.
C33_FailureLowersHealth ==
    [][/\ (ToolReturned /\ TransportFailure(wire_reply'.kind)) =>
            HealthDegraded(Resolve(cur_tool.name))
       /\ (tool_out'.seq # tool_out.seq /\ tool_out'.status = 200
             /\ ~tool_out'.success /\ TransportFailure(tool_out'.data)) =>
            HealthDegraded(tool_out'.service)]_vars

\* An invocation found service s disconnected: /api/call-tool answered 503.
FoundDisconnected(s) ==
    /\ tool_out'.seq # tool_out.seq
    /\ tool_out'.status = 503
    /\ tool_out'.service = s

\* C34: a service that failed its startup probe does not stay unavailable:
\* an invocation that finds the service disconnected makes the gateway probe
\* it again, so that it is connected again once the probe answers 200.
C34_DisconnectedIsProbedAgain ==
    [][\A s \in ServiceSet :
          FoundDisconnected(s) =>
             /\ Len(health_reply'[s]) = Len(health_reply[s]) + 1
             /\ services'[s] = Probe(services[s], Last(health_reply'[s]))]_vars

\* The records a parsed tool result holds: the members of a list, the list
\* inside a wrapper document, or the document itself.
Contained(text) ==
    IF text.shape = "list" THEN text.recs
    ELSE IF "records" \in DOMAIN text.recs[1] THEN text.recs[1].records
    ELSE IF "issues" \in DOMAIN text.recs[1] THEN text.recs[1].issues
    ELSE text.recs

\* The cache key of a record that has an identifier of a recognized kind.
KeyOf(tool_name, rec) ==
    IF tool_name = "salesforce_query"
    THEN <<RecordType(Get(rec, "Id", None)), Get(rec, "Id", None)>>
    ELSE <<"Jira", Get(rec, "key", None)>>

\* C35: for a tool whose results are cached, a single record, a list of
\* records and a wrapper document that holds a list are all recognized:
\* after the tool call of a driver that caches, every contained record with
\* an identifier of a recognized kind has been written to the entity cache.
C35_AllShapesAreCached ==
    [][(/\ ToolReturned
        /\ drv \in {"chat", "enhanced"}
        /\ cur_tool.name \in {"salesforce_query", "jira_get_issue"}
        /\ wire_reply'.kind = "200"
        /\ wire_reply'.result = "content"
        /\ ParsesAsJson(wire_reply'.text)) =>
          \A i \in 1..Len(Contained(wire_reply'.text)) :
             LET k == KeyOf(cur_tool.name, Contained(wire_reply'.text)[i])
             IN (k[1] # None /\ k[2] # None) =>
                   /\ k \in DOMAIN entity_cache'
                   /\ entity_cache'[k].cached_at.iso >= clock]_vars

\* The stored transcript.
Stored == session_context.conversation_history

\* t holds the last Len(t) entries of s, in the order of s.
IsSuffix(t, s) ==
    /\ Len(t) <= Len(s)
    /\ \A i \in 1..Len(t) : t[i] = s[Len(s) - Len(t) + i]

\* User and assistant entries alternate.
Alternates(s) == \A i \in 1..(Len(s) - 1) : s[i].role # s[i + 1].role

\* C36: after every completed request the stored transcript holds at most 20
\* turns, the most recent ones in their order, user and assistant
\* alternating; and the message list of a new request replays at most the
\* 10 most recent stored turns, followed by the new user message.
C36_TranscriptWindow ==
    [][/\ Len(Stored') <= HistoryWindow
       /\ Alternates(Stored')
       /\ Stored' # Stored =>
             LET ext == Stored \o <<Turn("user", <<"query">>, clock'),
                                    Turn("assistant", out'.response, clock')>>
             IN /\ IsSuffix(Stored', ext)
                /\ Len(Stored') = IF Len(ext) < HistoryWindow THEN Len(ext)
                                  ELSE HistoryWindow
       /\ (pc = "idle" /\ pc' = "while") =>
             LET replayed == SubSeq(messages', 1, Len(messages') - 1)
             IN /\ Last(messages') = UserQuery
                /\ Len(replayed) <= HistoryReplay
                /\ Len(replayed) <= Len(Stored)
                /\ \A i \in 1..Len(replayed) :
                      /\ replayed[i].kind = "turn"
                      /\ replayed[i].role = Stored[Len(Stored) - Len(replayed) + i].role
                /\ drv' = "chat" =>
                      Len(replayed) = IF Len(Stored) < HistoryReplay THEN Len(Stored)
                                      ELSE HistoryReplay]_vars

C36_Witness ==
    /\ pc = "idle"
    /\ out.drv = "chat"
    /\ out.response = <<"text">>
    /\ Len(Stored) = HistoryWindow
    /\ Stored[1].content = <<3>>
    /\ Stored[HistoryWindow - 1] = Turn("user", <<"query">>, clock)
    /\ Stored[HistoryWindow] = Turn("assistant", <<"text">>, clock)

\* C37: every opportunity listed in the at-risk section of the context
\* summary is one whose most recently cached payload has the implementation
\* status "At Risk": an opportunity cached again with another status is not
\* presented as at risk.
C37_AtRiskSectionIsCurrent ==
    \A i \in 1..Len(system_prompt.text) :
       system_prompt.text[i].kind = "opportunity" =>
          LET k == <<"Opportunity", system_prompt.text[i].id>>
          IN /\ k \in DOMAIN system_prompt.from.cache
             /\ Get(system_prompt.from.cache[k].data, "Implementation_Status__c", None)
                  = "At Risk"

\* C39: on graceful shutdown the final snapshot of the entity cache and the
\* session data is written before the outbound HTTP session is closed: the
\* snapshot step runs with the session open and writes what memory holds,
\* the session is closed only after it, and the shutdown ends with the
\* session closed also when a snapshot write failed.
C39_SnapshotBeforeClose ==
    [][/\ (phase = "serving" /\ phase' = "stopping") =>
             /\ http_session' = "open"
             /\ \E o1 \in SaveOutcomes, o2 \in SaveOutcomes :
                   files' = PersistCaches(files, entity_cache, session_context, o1, o2)
       /\ http_session' # http_session /\ http_session' = "closed" =>
             /\ phase = "stopping"
             /\ files' = files
       /\ phase' = "stopped" => http_session' = "closed"]_vars

C39_Witness ==
    /\ phase = "stopped"
    /\ http_session = "closed"
    /\ files.cache.state = "partial"
    /\ files.context.state = "ok"
    /\ entity_cache # <<>>

\* A chat, tool or delete request is handled in this step.
RequestHandled ==
    \/ chats' # chats
    \/ tool_out'.seq # tool_out.seq
    \/ in_flight' # in_flight
    \/ thinking_out'.seq # thinking_out.seq

\* C40: at startup the probes of the backends run concurrently, in either
\* order of completion; the catalog is built only after every probe has
\* finished, and no request is handled before the catalog has been built,
\* so no request sees a catalog that is being built.
C40_CatalogBeforeRequests ==
    [][/\ (probed' # probed) =>
             /\ phase = "probing"
             /\ available_tools = <<>> /\ available_tools' = <<>>
             /\ tool_to_server' = <<>>
       /\ (phase = "probing" /\ phase' # "probing") =>
             /\ probed = ServiceSet
             /\ phase' = "serving"
             /\ \A s \in ServiceSet : Len(health_reply[s]) = 1
       /\ (available_tools' # available_tools \/ tool_to_server' # tool_to_server) =>
             /\ phase = "probing" /\ phase' \in {"probing", "serving"}
             /\ probed = ServiceSet
             /\ chats = 0 /\ tool_out.seq = 0 /\ thinking_out.seq = 0
       /\ RequestHandled =>
             /\ phase = "serving"
             /\ available_tools' = available_tools
             /\ tool_to_server' = tool_to_server]_vars

C40_Witness ==
    /\ phase = "probing"
    /\ probed = {"jira"}
    /\ services["jira"].connected
    /\ ~services["salesforce"].connected
    /\ health_reply["salesforce"] = <<>>
    /\ available_tools = <<>>
    /\ chats = 0

\* C38: in every state after startup each tool name of the name-to-service
\* index maps to a service whose connected flag is true, so a tool request
\* of a chat that the index resolves is never refused for a service that is
\* not connected.
C38_IndexedServiceIsConnected ==
    /\ \A n \in DOMAIN tool_to_server : services[tool_to_server[n]].connected
    /\ (pc = "for" /\ iter_list[idx].type = "tool_use"
          /\ Resolve(iter_list[idx].name) # None) =>
          ServiceConnected(Resolve(iter_list[idx].name))

C38_Witness ==
    /\ phase = "serving"
    /\ drv = "chat"
    /\ pc = "await"
    /\ ~services["jira"].connected
    /\ services["salesforce"].connected
    /\ Resolve(cur_tool.name) = "salesforce"
    /\ Len(sent) = 1

\* C31: while two chat requests are handled at the same time, every key of
\* the entity cache holds the whole payload of the latest write to it by
\* either request, no step removes a key, a system prompt is built from the
\* cache as it is at that moment, and every snapshot a step finishes writing
\* is the cache and the session context the gateway holds at that step.
C31_ConcurrentWritesAreWhole ==
    [][/\ \A k \in DOMAIN last_write' :
             /\ k \in DOMAIN entity_cache'
             /\ entity_cache'[k].data = last_write'[k].data
             /\ entity_cache'[k].cached_at = last_write'[k].cached_at
       /\ DOMAIN entity_cache \subseteq DOMAIN entity_cache'
       /\ system_prompt'.n # system_prompt.n => system_prompt'.from.cache = entity_cache
       /\ (files'.cache # files.cache /\ files'.cache.state = "ok")
             => JsonLoad(files'.cache.text) = entity_cache'
       /\ (files'.context # files.context /\ files'.context.state = "ok")
             => JsonLoad(files'.context.text) = session_context']_vars

\* The second request was sent, answered, stored and saved while the first
\* waited for its only tool call; the first then wrote the same key, so the
\* cache holds its record and the snapshot on disk the record of the second.
C31_Witness ==
    /\ drv = "chat"
    /\ pc = "while"
    /\ peer_pc = "done"
    /\ Len(sent) = 2
    /\ sent[1].req # -1
    /\ sent[2].req = -1
    /\ files.cache.state = "ok"
    /\ \E k \in DOMAIN entity_cache \cap DOMAIN JsonLoad(files.cache.text) :
          /\ entity_cache[k].data = OppAtRisk
          /\ JsonLoad(files.cache.text)[k].data = OppOnTrack
====
